---- MODULE Spec2Model ----
(***************************************************************************)
(* Telemetry normalisation and merge engine of the observability           *)
(* repository: the per-document deduplicator and XML converter of          *)
(* src/src/scripts/xml2json_deduplicated.py and the cumulative merge of    *)
(* src/src/scripts/merge_machine_data.py.                                  *)
(*                                                                         *)
(* Python values are represented as follows.  A text (XML attribute text,  *)
(* element text) is a TLA+ string, "" standing for an absent or empty      *)
(* text.  A converted value (the result of convert_value) is a record      *)
(* [k, s]: k = "null" for None, k = "num" for a number whose canonical     *)
(* numeral is s, k = "str" for the string s.  A Python dict whose          *)
(* iteration order matters is a record [keys, m]: keys is the insertion    *)
(* order, m the mapping.                                                   *)
(***************************************************************************)
EXTENDS Integers, Sequences, FiniteSets, TLC

VARIABLES
    items,        \* deduplicate_data_items: the raw item list passed in
    item_type,    \* deduplicate_data_items: 'samples', 'events' or 'conditions'
    dedupOut,     \* the outcome of the call
    xml_string,   \* convert_xml_to_json_deduplicated: the document passed in
    convOut,      \* the outcome of the call
    merged_data,  \* the cumulative document of one machine
    ingested,     \* the documents merged into it so far, in order
    files_info,   \* process_machine_data: the JSON and XML files of the machine
    progress,     \* the loop it is in and the index of the next file
    data_sources, \* the source records it has appended
    heap,         \* the dict objects that documents in memory share
    documents,    \* a list of documents in memory
    folding,      \* the fold under way: its round, next index and result
    folded,       \* json.dumps of the result of each finished fold
    store,        \* database.py: the committed tables of the database
    session,      \* the connection of a run of main and its transaction
    load_log,     \* the calls of process_xml_file so far and their outcomes
    csv_file,     \* load_data_efficient.py: the rows of the CSV file in data-dir
    csv_store,    \* the committed tables of the database it loads into
    csv_conn,     \* the connection of a run of main and its transaction
    csv_load,     \* the locals of load_samples_efficient / load_events_efficient
    csv_trace,    \* what the call under way has asked of and handed to the store
    mz_files,     \* mazak_data_loader.py: the CSV files of the data directory
    mz_db,        \* the committed state of the database it loads into
    mz_conn,      \* self.connection and its transaction
    mz_run,       \* the step run_full_load is at and the steps it has executed
    mz_trace,     \* the lookup cache of the last call of load_time_series_data
    race_files,   \* two invocations of load_data_efficient.py: their CSV files
    race_db,      \* the committed machines table and its id sequence
    race_proc     \* each invocation's position, lookup and transaction

dedupVars == <<items, item_type, dedupOut>>
convVars == <<xml_string, convOut>>
mergeVars == <<merged_data, ingested>>
processVars == <<files_info, progress, data_sources>>
foldVars == <<heap, documents, folding, folded>>
xmlLoadVars == <<store, session, load_log>>
csvVars == <<csv_file, csv_store, csv_conn, csv_load, csv_trace>>
mazakVars == <<mz_files, mz_db, mz_conn, mz_run, mz_trace>>
raceVars == <<race_files, race_db, race_proc>>
vars == <<items, item_type, dedupOut, xml_string, convOut, merged_data, ingested,
          files_info, progress, data_sources, heap, documents, folding, folded,
          store, session, load_log,
          csv_file, csv_store, csv_conn, csv_load, csv_trace,
          mz_files, mz_db, mz_conn, mz_run, mz_trace,
          race_files, race_db, race_proc>>

(***************************************************************************)
(* Bounds of the model.                                                    *)
(***************************************************************************)
MaxT == 2
MaxItems == 3

(***************************************************************************)
(* Texts.  AwareStamps[t] is an ISO timestamp with a trailing Z at instant *)
(* t, NaiveStamps[t] the same instant written without a timezone.          *)
(***************************************************************************)
AwareStamps == <<"2024-01-01T00:00:01Z", "2024-01-01T00:00:02Z",
                 "2024-01-01T00:00:03Z", "2024-01-01T00:00:04Z">>
NaiveStamps == <<"2024-01-01T00:00:01", "2024-01-01T00:00:02",
                 "2024-01-01T00:00:03", "2024-01-01T00:00:04">>
Numerals == {"0", "5", "100", "101", "2024"}

AwareTexts == {AwareStamps[t] : t \in 1..MaxT}
NaiveTexts == {NaiveStamps[1]}

NullValue == [k |-> "null", s |-> ""]
StrValue(s) == [k |-> "str", s |-> s]
NumValue(s) == [k |-> "num", s |-> s]

\* convert_value: "UNAVAILABLE" and the empty text become None, a numeral
\* becomes a number, any other text is returned unchanged.
convert_value(value) ==
    IF value = "UNAVAILABLE" THEN NullValue
    ELSE IF value = "" THEN NullValue
    ELSE IF value \in Numerals THEN NumValue(value)
    ELSE StrValue(value)

\* Python truthiness of a converted value: None and the number 0 are falsy.
Truthy(v) == ~(v.k = "null") /\ ~(v.k = "num" /\ v.s = "0")

\* parse_iso applied to a converted attribute value: a number has no
\* .replace (AttributeError), an ISO text parses to an aware or a naive
\* datetime, any other text makes datetime.fromisoformat raise ValueError.
parse_iso(ts) ==
    IF ts.k = "num" THEN [exc |-> "AttributeError", aware |-> FALSE, t |-> 0]
    ELSE IF \E t \in 1..Len(AwareStamps) : AwareStamps[t] = ts.s
         THEN [exc |-> "", aware |-> TRUE,
               t |-> CHOOSE t \in 1..Len(AwareStamps) : AwareStamps[t] = ts.s]
    ELSE IF \E t \in 1..Len(NaiveStamps) : NaiveStamps[t] = ts.s
         THEN [exc |-> "", aware |-> FALSE,
               t |-> CHOOSE t \in 1..Len(NaiveStamps) : NaiveStamps[t] = ts.s]
    ELSE [exc |-> "ValueError", aware |-> FALSE, t |-> 0]

(***************************************************************************)
(* XML elements and the item dicts built from them.                        *)
(***************************************************************************)
AttrNames == {"dataItemId", "timestamp", "sequence", "type", "subType"}

\* extract_attributes: every attribute text goes through convert_value.
extract_attributes(xml_node) ==
    [a \in AttrNames |-> convert_value(xml_node[a])]

\* The item dict appended for one child element of Samples, Events or
\* Condition: its keys are '@attributes' and '#text', in that order.
ItemOf(xml_node) ==
    [keys  |-> <<"@attributes", "#text">>,
     attrs |-> extract_attributes(xml_node),
     text  |-> xml_node.text]

(***************************************************************************)
(* Ordered dicts.                                                          *)
(***************************************************************************)
EmptyMap == [x \in {} |-> x]
EmptyDict == [keys |-> <<>>, m |-> EmptyMap]
DictPut(d, key, val) ==
    [keys |-> IF key \in DOMAIN d.m THEN d.keys ELSE Append(d.keys, key),
     m    |-> (key :> val) @@ d.m]
DictHas(d, key) == key \in DOMAIN d.m

RECURSIVE DictUpdateFrom(_, _, _)
DictUpdateFrom(d, other, i) ==
    IF i > Len(other.keys) THEN d
    ELSE DictUpdateFrom(DictPut(d, other.keys[i], other.m[other.keys[i]]),
                        other, i + 1)
\* dict.update(other)
DictUpdate(d, other) == DictUpdateFrom(d, other, 1)

(***************************************************************************)
(* deduplicate_data_items.                                                 *)
(***************************************************************************)
\* The grouping loop: items without a truthy dataItemId or timestamp are
\* skipped, a ValueError of parse_iso skips the item, any other exception
\* leaves the loop.
RECURSIVE GroupItems(_, _, _)
GroupItems(its, i, grouped) ==
    IF i > Len(its) THEN [exc |-> "", grouped |-> grouped]
    ELSE LET item == its[i]
             data_item_id == item.attrs["dataItemId"]
             timestamp_str == item.attrs["timestamp"]
         IN  IF ~Truthy(data_item_id) THEN GroupItems(its, i + 1, grouped)
             ELSE IF ~Truthy(timestamp_str) THEN GroupItems(its, i + 1, grouped)
             ELSE LET p == parse_iso(timestamp_str)
                      old == IF DictHas(grouped, data_item_id)
                             THEN grouped.m[data_item_id] ELSE <<>>
                      entry == [item |-> item, pos |-> i, parsed |-> p]
                  IN  IF p.exc = "ValueError" THEN GroupItems(its, i + 1, grouped)
                      ELSE IF p.exc # "" THEN [exc |-> p.exc, grouped |-> grouped]
                      ELSE GroupItems(its, i + 1,
                                      DictPut(grouped, data_item_id, Append(old, entry)))

\* x > y on two parsed datetimes: comparing an aware with a naive datetime
\* raises TypeError.
DatetimeGreater(x, y) ==
    IF x.aware # y.aware THEN [exc |-> "TypeError", gt |-> FALSE]
    ELSE [exc |-> "", gt |-> x.t > y.t]

\* max(item_list, key=...): the running maximum is replaced only by a
\* strictly greater key.
RECURSIVE MaxFrom(_, _, _)
MaxFrom(item_list, i, best) ==
    IF i > Len(item_list) THEN [exc |-> "", latest |-> best]
    ELSE LET c == DatetimeGreater(item_list[i].parsed, best.parsed)
         IN  IF c.exc # "" THEN [exc |-> c.exc, latest |-> best]
             ELSE MaxFrom(item_list, i + 1, IF c.gt THEN item_list[i] ELSE best)

LatestItem(item_list) == MaxFrom(item_list, 2, item_list[1])

\* The first key of the item dict that is neither '@attributes' nor
\* '_parsed_timestamp', None when there is none.
RECURSIVE FirstOtherKey(_, _)
FirstOtherKey(keys, i) ==
    IF i > Len(keys) THEN NullValue
    ELSE IF keys[i] \notin {"@attributes", "_parsed_timestamp"} THEN StrValue(keys[i])
    ELSE FirstOtherKey(keys, i + 1)

\* The output entry built from the winning item.  subType is copied only
\* when truthy (k = "absent" stands for the key left out); compositionId,
\* assetType and count are attributes that no element of the model carries.
TransformItem(latest_item, itype) ==
    LET attrs == latest_item.attrs
    IN  IF itype = "conditions"
        THEN [timestamp |-> attrs["timestamp"],
              sequence  |-> attrs["sequence"],
              state     |-> FirstOtherKey(latest_item.keys, 1),
              category  |-> attrs["type"]]
        ELSE [timestamp |-> attrs["timestamp"],
              sequence  |-> attrs["sequence"],
              value     |-> convert_value(latest_item.text),
              subType   |-> IF Truthy(attrs["subType"]) THEN attrs["subType"]
                            ELSE [k |-> "absent", s |-> ""]]

\* The loop over the groups, in insertion order of the dataItemIds.
RECURSIVE ReduceGroups(_, _, _, _)
ReduceGroups(grouped, itype, i, result) ==
    IF i > Len(grouped.keys) THEN [exc |-> "", result |-> result, winners |-> <<>>]
    ELSE LET data_item_id == grouped.keys[i]
             mx == LatestItem(grouped.m[data_item_id])
         IN  IF mx.exc # "" THEN [exc |-> mx.exc, result |-> EmptyDict, winners |-> <<>>]
             ELSE LET rest == ReduceGroups(grouped, itype, i + 1,
                                  DictPut(result, data_item_id,
                                          TransformItem(mx.latest.item, itype)))
                  IN  IF rest.exc # "" THEN rest
                      ELSE [rest EXCEPT !.winners = <<mx.latest>> \o @]

\* deduplicate_data_items with the emptiness test off by one: a list of one
\* item is answered like the empty list.
deduplicate_data_items_SkipsSingleton(its, itype) ==
    IF Len(its) <= 1 THEN [exc |-> "", result |-> EmptyDict, winners |-> <<>>]
    ELSE LET g == GroupItems(its, 1, EmptyDict)
         IN  IF g.exc # "" THEN [exc |-> g.exc, result |-> EmptyDict, winners |-> <<>>]
             ELSE ReduceGroups(g.grouped, itype, 1, EmptyDict)

\* deduplicate_data_items(items, item_type): exc names the exception that
\* leaves the function ("" when it returns), result is the returned dict,
\* winners the items chosen by max, one per dataItemId in insertion order.
deduplicate_data_items(its, itype) ==
    IF Len(its) = 0 THEN [exc |-> "", result |-> EmptyDict, winners |-> <<>>]
    ELSE LET g == GroupItems(its, 1, EmptyDict)
         IN  IF g.exc # "" THEN [exc |-> g.exc, result |-> EmptyDict, winners |-> <<>>]
             ELSE ReduceGroups(g.grouped, itype, 1, EmptyDict)

(***************************************************************************)
(* Inputs of the deduplicator: the item dicts of the child elements of one *)
(* Samples, Events or Condition container.                                 *)
(***************************************************************************)
IdTexts == {"X1", "X2"}
ValueTexts == {"100", "UNAVAILABLE"}

Element(id, ts, text) ==
    [dataItemId |-> id, timestamp |-> ts, sequence |-> "5", type |-> "SYSTEM",
     subType |-> "", text |-> text]

\* One element per combination that the code can tell apart: the text of
\* an element that the grouping loop never looks at is fixed.
Elements ==
    {Element(id, ts, text) : id \in IdTexts, ts \in AwareTexts \cup NaiveTexts,
                             text \in ValueTexts}
    \cup {Element("X1", ts, "100") : ts \in {"garbage", "2024", ""}}
    \cup {Element("", AwareStamps[1], "100")}

RECURSIVE SeqsUpTo(_, _)
SeqsUpTo(S, n) ==
    IF n = 0 THEN {<<>>}
    ELSE LET shorter == SeqsUpTo(S, n - 1)
         IN  shorter \cup {Append(q, x) : q \in {r \in shorter : Len(r) = n - 1}, x \in S}

(***************************************************************************)
(* convert_xml_to_json_deduplicated.  A document is a record: wellFormed   *)
(* tells whether ET.fromstring parses it, ns is the namespace of its       *)
(* elements ("" for none), hasDeviceStream whether it holds a DeviceStream *)
(* element, streams its ComponentStream elements in document order.  A     *)
(* ComponentStream has its attributes and, for each of Samples, Events and *)
(* Condition, a container [present, children].                             *)
(***************************************************************************)
NS15 == "urn:mtconnect.org:MTConnectStreams:1.5"

\* The path patterns probed in turn for an element name: no namespace, any
\* namespace, the MTConnectStreams 1.5 namespace.
ProbedNamespaces == <<"", "*", NS15>>

\* Whether a pattern with namespace part pns selects an element of
\* namespace ns.
PatternSelects(pns, ns) == IF pns = "*" THEN TRUE ELSE pns = ns

\* The index of the first probed pattern that finds an element of
\* namespace ns, 0 when the element is absent.
RECURSIVE FirstPattern(_, _, _)
FirstPattern(present, ns, i) ==
    IF i > Len(ProbedNamespaces) THEN 0
    ELSE IF present /\ PatternSelects(ProbedNamespaces[i], ns) THEN i
    ELSE FirstPattern(present, ns, i + 1)

\* The children of a container grouped by stripped tag name, the tags in
\* order of first appearance, each child as its item dict.
RECURSIVE GroupByTag(_, _, _)
GroupByTag(children, i, d) ==
    IF i > Len(children) THEN d
    ELSE LET tag == children[i].tag
             old == IF DictHas(d, tag) THEN d.m[tag] ELSE <<>>
         IN  GroupByTag(children, i + 1, DictPut(d, tag, Append(old, ItemOf(children[i]))))

\* The loop of transform_components_deduplicated over the tags of one
\* category: every tag's list is deduplicated on its own and the result is
\* written over what the earlier tags gave (dict.update).
RECURSIVE TransformCategory(_, _, _, _)
TransformCategory(byTag, itype, i, acc) ==
    IF i > Len(byTag.keys) THEN [exc |-> "", dict |-> acc]
    ELSE LET deduplicated == deduplicate_data_items(byTag.m[byTag.keys[i]], itype)
         IN  IF deduplicated.exc # "" THEN [exc |-> deduplicated.exc, dict |-> acc]
             ELSE TransformCategory(byTag, itype, i + 1,
                                    DictUpdate(acc, deduplicated.result))

ContainerNames == <<"Samples", "Events", "Condition">>
CategoryKey(container) ==
    CASE container = "Samples" -> "samples"
      [] container = "Events" -> "events"
      [] container = "Condition" -> "conditions"

\* One component: 'type' and 'name', then one dict per container that the
\* component holds.
RECURSIVE TransformContainers(_, _, _, _)
TransformContainers(component, ns, i, acc) ==
    IF i > Len(ContainerNames) THEN [exc |-> "", component |-> acc]
    ELSE LET c == component[ContainerNames[i]]
         IN  IF FirstPattern(c.present, ns, 1) = 0
             THEN TransformContainers(component, ns, i + 1, acc)
             ELSE LET t == TransformCategory(GroupByTag(c.children, 1, EmptyDict),
                                             CategoryKey(ContainerNames[i]), 1, EmptyDict)
                  IN  IF t.exc # "" THEN [exc |-> t.exc, component |-> acc]
                      ELSE TransformContainers(component, ns, i + 1,
                               (CategoryKey(ContainerNames[i]) :> t.dict) @@ acc)

\* transform_components_deduplicated over the component streams: a stream
\* without a truthy componentId is skipped.
RECURSIVE transform_components_deduplicated(_, _, _, _)
transform_components_deduplicated(component_streams, ns, i, components) ==
    IF i > Len(component_streams) THEN [exc |-> "", components |-> components]
    ELSE LET component == component_streams[i]
             component_id == convert_value(component.componentId)
             base == ("type" :> convert_value(component.component)) @@
                     ("name" :> convert_value(component.name))
         IN  IF ~Truthy(component_id)
             THEN transform_components_deduplicated(component_streams, ns, i + 1, components)
             ELSE LET t == TransformContainers(component, ns, 1, base)
                  IN  IF t.exc # "" THEN [exc |-> t.exc, components |-> components]
                      ELSE transform_components_deduplicated(component_streams, ns, i + 1,
                               DictPut(components, component_id, t.component))

NoDocument == [header |-> EmptyMap,
               device |-> [name |-> "", uuid |-> "", components |-> EmptyDict]]

\* convert_xml_to_json_deduplicated rejecting a document in which no
\* pattern finds a DeviceStream, instead of processing its root element.
convert_xml_to_json_deduplicated_RejectsNoDeviceStream(xml) ==
    IF ~xml.wellFormed
    THEN [returned |-> "None", exc |-> "ParseError", document |-> NoDocument]
    ELSE IF FirstPattern(xml.hasDeviceStream, xml.ns, 1) = 0
    THEN [returned |-> "None", exc |-> "StructureError", document |-> NoDocument]
    ELSE LET header == IF xml.ns = "" THEN ("creationTime" :> convert_value(xml.creationTime))
                       ELSE EmptyMap
             component_streams ==
                 IF FirstPattern(Len(xml.streams) > 0, xml.ns, 1) # 0 THEN xml.streams ELSE <<>>
             t == transform_components_deduplicated(component_streams, xml.ns, 1, EmptyDict)
         IN  IF t.exc # ""
             THEN [returned |-> "None", exc |-> t.exc, document |-> NoDocument]
             ELSE [returned |-> "document", exc |-> "",
                   document |-> [header |-> header,
                                 device |-> [name |-> convert_value(xml.deviceName),
                                             uuid |-> convert_value(xml.deviceUuid),
                                             components |-> t.components]]]

\* convert_xml_to_json_deduplicated(xml_string): returned is "None" when
\* the function returns None (exc names the exception caught), "document"
\* when it returns the JSON text of document.
convert_xml_to_json_deduplicated(xml) ==
    IF ~xml.wellFormed
    THEN [returned |-> "None", exc |-> "ParseError", document |-> NoDocument]
    ELSE LET header == IF xml.ns = "" THEN ("creationTime" :> convert_value(xml.creationTime))
                       ELSE EmptyMap
             found == FirstPattern(xml.hasDeviceStream, xml.ns, 1)
             \* without a DeviceStream the root element is processed in its place
             name == IF found # 0 THEN convert_value(xml.deviceName) ELSE StrValue("Unknown")
             uuid == IF found # 0 THEN convert_value(xml.deviceUuid) ELSE StrValue("Unknown")
             component_streams ==
                 IF FirstPattern(Len(xml.streams) > 0, xml.ns, 1) # 0 THEN xml.streams ELSE <<>>
             t == transform_components_deduplicated(component_streams, xml.ns, 1, EmptyDict)
         IN  IF t.exc # ""
             THEN [returned |-> "None", exc |-> t.exc, document |-> NoDocument]
             ELSE [returned |-> "document", exc |-> "",
                   document |-> [header |-> header,
                                 device |-> [name |-> name, uuid |-> uuid,
                                             components |-> t.components]]]

(***************************************************************************)
(* Input documents of the converter.                                       *)
(***************************************************************************)
MaxChildren == 2

TagsOf(container) ==
    IF container = "Condition" THEN {"Normal", "Warning"} ELSE {"Position", "Load"}

ChildElements(container) ==
    {[tag |-> tag] @@ Element(id, ts, "100") :
        tag \in TagsOf(container), id \in IdTexts,
        ts \in AwareTexts \cup NaiveTexts \cup {"garbage", "2024"}}

Absent == [present |-> FALSE, children |-> <<>>]

ComponentStream(id, container, children) ==
    [componentId |-> id, component |-> "Linear", name |-> "X",
     Samples   |-> IF container = "Samples" THEN [present |-> TRUE, children |-> children]
                   ELSE Absent,
     Events    |-> IF container = "Events" THEN [present |-> TRUE, children |-> children]
                   ELSE Absent,
     Condition |-> IF container = "Condition" THEN [present |-> TRUE, children |-> children]
                   ELSE Absent]

\* A second stream with one reading, and a stream without a componentId.
StreamY ==
    ComponentStream("y", "Samples",
                    <<[tag |-> "Position"] @@ Element("Y1", AwareStamps[1], "5")>>)
StreamNoId == ComponentStream("", "Samples", <<>>)

Document(ns, hasDeviceStream, streams) ==
    [wellFormed |-> TRUE, ns |-> ns, hasDeviceStream |-> hasDeviceStream,
     creationTime |-> AwareStamps[1], deviceName |-> "m", deviceUuid |-> "u",
     streams |-> streams]

MalformedDocument == [Document("", FALSE, <<>>) EXCEPT !.wellFormed = FALSE]

Namespaces == {"", NS15, "urn:other"}
Containers == {"Samples", "Events", "Condition"}
MoreStreams == {<<>>, <<StreamNoId, StreamY>>}

(***************************************************************************)
(* merge_machine_data.  A document and a component are maps from the keys  *)
(* they hold to their values; the dicts of components, samples, events and *)
(* conditions are ordered dicts.  A samples or events entry is a record    *)
(* [list, es]: list tells whether the entry is a list, es holds its        *)
(* readings (exactly one for a bare entry).  None and the empty dict, which *)
(* no test of the code tells apart, are both EmptyMap.                     *)
(***************************************************************************)
Has(d, key) == key \in DOMAIN d
Set(d, key, val) == (key :> val) @@ d
\* A dict is falsy when it is empty.
EmptyOrdered(d) == Len(d.keys) = 0

Bare(e) == [list |-> FALSE, es |-> <<e>>]
ListOf(es) == [list |-> TRUE, es |-> es]
\* x if isinstance(x, list) else [x]
AsList(x) == ListOf(x.es)

RECURSIVE MergeSamplesFrom(_, _, _)
MergeSamplesFrom(merged, new_samples, i) ==
    IF i > Len(new_samples.keys) THEN merged
    ELSE LET sample_name == new_samples.keys[i]
             sample_data == new_samples.m[sample_name]
         IN  MergeSamplesFrom(
                 IF ~DictHas(merged, sample_name)
                 THEN DictPut(merged, sample_name, AsList(sample_data))
                 ELSE DictPut(merged, sample_name,
                              ListOf(AsList(merged.m[sample_name]).es \o AsList(sample_data).es)),
                 new_samples, i + 1)

RECURSIVE MergeSamplesNewFirstFrom(_, _, _)
MergeSamplesNewFirstFrom(merged, new_samples, i) ==
    IF i > Len(new_samples.keys) THEN merged
    ELSE LET sample_name == new_samples.keys[i]
             sample_data == new_samples.m[sample_name]
         IN  MergeSamplesNewFirstFrom(
                 IF ~DictHas(merged, sample_name)
                 THEN DictPut(merged, sample_name, AsList(sample_data))
                 ELSE DictPut(merged, sample_name,
                              ListOf(AsList(sample_data).es \o AsList(merged.m[sample_name]).es)),
                 new_samples, i + 1)

\* merge_samples concatenating the incoming list before the existing one.
merge_samples_NewFirst(existing_samples, new_samples) ==
    IF EmptyOrdered(existing_samples) THEN new_samples
    ELSE MergeSamplesNewFirstFrom(existing_samples, new_samples, 1)

merge_samples(existing_samples, new_samples) ==
    IF EmptyOrdered(existing_samples) THEN new_samples
    ELSE MergeSamplesFrom(existing_samples, new_samples, 1)

RECURSIVE MergeEventsFrom(_, _, _)
MergeEventsFrom(merged, new_events, i) ==
    IF i > Len(new_events.keys) THEN merged
    ELSE LET event_name == new_events.keys[i]
             event_data == new_events.m[event_name]
         IN  MergeEventsFrom(
                 IF ~DictHas(merged, event_name)
                 THEN DictPut(merged, event_name, AsList(event_data))
                 ELSE DictPut(merged, event_name,
                              ListOf(AsList(merged.m[event_name]).es \o AsList(event_data).es)),
                 new_events, i + 1)

\* merge_events overwriting the existing list by the incoming one, as
\* merge_conditions does.
merge_events_Replaces(existing_events, new_events) ==
    IF EmptyOrdered(existing_events) THEN new_events
    ELSE DictUpdate(existing_events, new_events)

merge_events(existing_events, new_events) ==
    IF EmptyOrdered(existing_events) THEN new_events
    ELSE MergeEventsFrom(existing_events, new_events, 1)

\* merge_conditions keeping the existing entry of a condition that both
\* documents hold.
merge_conditions_KeepsExisting(existing_conditions, new_conditions) ==
    IF EmptyOrdered(existing_conditions) THEN new_conditions
    ELSE DictUpdate(new_conditions, existing_conditions)

merge_conditions(existing_conditions, new_conditions) ==
    IF EmptyOrdered(existing_conditions) THEN new_conditions
    ELSE DictUpdate(existing_conditions, new_conditions)

\* The branch of merge_components for a component that both documents hold.
MergeExistingComponent(existing, component_data) ==
    LET withSamples ==
            IF Has(component_data, "samples") /\ Has(existing, "samples")
            THEN Set(existing, "samples",
                     merge_samples(existing["samples"], component_data["samples"]))
            ELSE IF Has(component_data, "samples")
            THEN Set(existing, "samples", component_data["samples"])
            ELSE existing
        withEvents ==
            IF Has(component_data, "events") /\ Has(withSamples, "events")
            THEN Set(withSamples, "events",
                     merge_events(withSamples["events"], component_data["events"]))
            ELSE IF Has(component_data, "events")
            THEN Set(withSamples, "events", component_data["events"])
            ELSE withSamples
        withConditions ==
            IF Has(component_data, "conditions") /\ Has(withEvents, "conditions")
            THEN Set(withEvents, "conditions",
                     merge_conditions(withEvents["conditions"], component_data["conditions"]))
            ELSE IF Has(component_data, "conditions")
            THEN Set(withEvents, "conditions", component_data["conditions"])
            ELSE withEvents
        withType ==
            IF Has(component_data, "type")
            THEN Set(withConditions, "type", component_data["type"]) ELSE withConditions
    IN  IF Has(component_data, "name")
        THEN Set(withType, "name", component_data["name"]) ELSE withType

RECURSIVE MergeComponentsFrom(_, _, _)
MergeComponentsFrom(merged, new_components, i) ==
    IF i > Len(new_components.keys) THEN merged
    ELSE LET component_name == new_components.keys[i]
             component_data == new_components.m[component_name]
         IN  MergeComponentsFrom(
                 IF ~DictHas(merged, component_name)
                 THEN DictPut(merged, component_name, component_data)
                 ELSE DictPut(merged, component_name,
                              MergeExistingComponent(merged.m[component_name], component_data)),
                 new_components, i + 1)

merge_components(existing_components, new_components) ==
    IF EmptyOrdered(existing_components) THEN new_components
    ELSE MergeComponentsFrom(existing_components, new_components, 1)

merge_machine_data(existing_data, new_data) ==
    IF DOMAIN existing_data = {} THEN new_data
    ELSE LET withDevice ==
                 IF Has(new_data, "device") /\ Has(existing_data, "device")
                 THEN IF Has(new_data["device"], "components")
                         /\ Has(existing_data["device"], "components")
                      THEN Set(existing_data, "device",
                               Set(existing_data["device"], "components",
                                   merge_components(existing_data["device"]["components"],
                                                    new_data["device"]["components"])))
                      ELSE IF Has(new_data["device"], "components")
                      THEN Set(existing_data, "device",
                               Set(existing_data["device"], "components",
                                   new_data["device"]["components"]))
                      ELSE existing_data
                 ELSE IF Has(new_data, "device")
                 THEN Set(existing_data, "device", new_data["device"])
                 ELSE existing_data
             withDirect ==
                 IF Has(new_data, "components") /\ Has(withDevice, "components")
                 THEN Set(withDevice, "components",
                          merge_components(withDevice["components"], new_data["components"]))
                 ELSE IF Has(new_data, "components")
                 THEN Set(withDevice, "components", new_data["components"])
                 ELSE withDevice
         IN  IF Has(new_data, "header")
             THEN Set(withDirect, "header", new_data["header"]) ELSE withDirect

(***************************************************************************)
(* Input documents of the merge: documents of the shape the converter      *)
(* writes, their entries bare (deduplicated) or lists (already merged).    *)
(***************************************************************************)
MaxDocs == 3

Reading(t, v) == [timestamp |-> AwareStamps[t], value |-> v]
Readings == {Reading(1, 100), Reading(2, 101)}
ConditionEntry(t, state) == [timestamp |-> AwareStamps[t], state |-> state]

RECURSIVE DictOf(_)
\* The ordered dict of a sequence of <<key, value>> pairs.
DictOf(pairs) ==
    IF pairs = <<>> THEN EmptyDict
    ELSE LET front == DictOf(SubSeq(pairs, 1, Len(pairs) - 1))
         IN  DictPut(front, pairs[Len(pairs)][1], pairs[Len(pairs)][2])

ComponentBase(name) == ("type" :> "Linear") @@ ("name" :> name)

SamplesChoices ==
    {DictOf(<<>>)}
    \cup {DictOf(<<<<"Xabs", Bare(r)>>>>) : r \in Readings}
    \cup {DictOf(<<<<"Xabs", ListOf(<<Reading(1, 100), Reading(2, 101)>>)>>>>),
          DictOf(<<<<"Xload", Bare(Reading(1, 100))>>, <<"Xabs", Bare(Reading(2, 101))>>>>)}
EventsChoices ==
    {DictOf(<<<<"mode", Bare(Reading(1, 100))>>>>),
     DictOf(<<<<"mode", ListOf(<<Reading(2, 101)>>)>>>>)}
ConditionsChoices ==
    {DictOf(<<<<"c1", ConditionEntry(1, "Normal")>>>>),
     DictOf(<<<<"c1", ConditionEntry(2, "Warning")>>>>),
     DictOf(<<<<"c2", ConditionEntry(1, "Normal")>>, <<"c1", ConditionEntry(1, "Fault")>>>>)}

ComponentChoices ==
    {Set(ComponentBase("X"), "samples", d) : d \in SamplesChoices}
    \cup {Set(ComponentBase("X"), "events", d) : d \in EventsChoices}
    \cup {Set(ComponentBase("X"), "conditions", d) : d \in ConditionsChoices}
    \cup {ComponentBase("X axis"),
          Set(Set(Set(ComponentBase("X"),
                      "samples", DictOf(<<<<"Xabs", Bare(Reading(1, 100))>>>>)),
                  "events", DictOf(<<<<"mode", Bare(Reading(2, 101))>>>>)),
              "conditions", DictOf(<<<<"c1", ConditionEntry(2, "Warning")>>>>))}

ComponentY == Set(ComponentBase("Y"), "samples", DictOf(<<<<"Yabs", Bare(Reading(2, 101))>>>>))

ParsedDocument(creation_time, components) ==
    ("header" :> ("creationTime" :> AwareStamps[creation_time])) @@
    ("device" :> (("name" :> "m") @@ ("uuid" :> "u") @@ ("components" :> components)))

ParsedDocuments ==
    {ParsedDocument(1, DictOf(<<<<"x", c>>>>)) : c \in ComponentChoices}
    \cup {ParsedDocument(2, DictOf(<<<<"y", ComponentY>>>>)),
          ParsedDocument(2, DictOf(<<<<"y", ComponentY>>,
                                     <<"x", Set(ComponentBase("X"), "samples",
                                                DictOf(<<<<"Xabs", Bare(Reading(2, 101))>>>>))>>>>)),
          ParsedDocument(2, EmptyDict)}

(***************************************************************************)
(* process_machine_data and the files it reads.  A file is the record that *)
(* collect_machine_files builds for it, its timestamp being the instant    *)
(* that the last part of the filename names, together with what loading    *)
(* the file gives: content is {} for a file that load_json_file or         *)
(* parse_xml_file cannot load (they return None) or that holds nothing.    *)
(***************************************************************************)
\* The document that a JSON file written at instant t holds.
JsonContent(t) ==
    ParsedDocument(t, DictOf(<<<<"x",
        Set(Set(ComponentBase("X"),
                "samples", DictOf(<<<<"Xabs", Bare(Reading(t, 100))>>>>)),
            "conditions", DictOf(<<<<"c1", ConditionEntry(t, "Normal")>>>>))>>>>))

\* element_to_dict of a reading element: its attributes and its text.
XmlReading(t) == [attributes |-> [timestamp |-> AwareStamps[t]], text |-> "100"]

\* element_to_dict of the root of an MTConnect stream file: the children
\* of the root element MTConnectStreams, keyed by their tag; the device
\* stream holds one component stream with one sample.
StreamsFileContent(t) ==
    ("attributes" :> [creationTime |-> AwareStamps[t]]) @@
    ("Header" :> ("attributes" :> [creationTime |-> AwareStamps[t]])) @@
    ("Streams" :> ("DeviceStream" :>
        (("attributes" :> [name |-> "m"]) @@
         ("ComponentStream" :>
             (("attributes" :> [component |-> "Linear", name |-> "X", componentId |-> "x"]) @@
              ("Samples" :> ("Position" :> XmlReading(t))))))))

\* element_to_dict of a file whose root element wraps an MTConnectStreams
\* element with DeviceStream, Device and Components below it.
WrappedFileContent(t) ==
    "MTConnectStreams" :> ("DeviceStream" :> ("Device" :> ("Components" :>
        DictOf(<<<<"x", ("attributes" :> [type |-> "Linear"]) @@
                        ("Samples" :> DictOf(<<<<"Xabs", Bare(XmlReading(t))>>,
                                               <<"Xload", ListOf(<<XmlReading(t)>>)>>>>)) @@
                        ("Conditions" :> DictOf(<<<<"c1", XmlReading(t)>>>>))>>>>))))

JsonContents(t) == {EmptyMap, JsonContent(t)}
XmlContents(t) == {EmptyMap, StreamsFileContent(t), WrappedFileContent(t)}

FileInfo(kind, t, content) ==
    [filename |-> <<"mazak-1", "current", t, kind>>, data_type |-> "current",
     timestamp |-> t, content |-> content]

\* The lists that glob.glob can return for a directory: the files of the
\* directory, each once, in the order the file system lists them.
RECURSIVE Listings(_, _)
Listings(kind, instants) ==
    {<<>>} \cup
    UNION {{<<FileInfo(kind, t, c)>> \o rest :
               c \in (IF kind = "json" THEN JsonContents(t) ELSE XmlContents(t)),
               rest \in Listings(kind, instants \ {t})} : t \in instants}

\* The entries of a Samples or Events element, each made a list.
RECURSIVE ListEntriesFrom(_, _, _)
ListEntriesFrom(converted, entries, i) ==
    IF i > Len(entries.keys) THEN converted
    ELSE ListEntriesFrom(DictPut(converted, entries.keys[i],
                                 AsList(entries.m[entries.keys[i]])),
                         entries, i + 1)

\* The body of the loop over components of convert_xml_to_json_structure.
ConvertedComponent(component_name, component_data) ==
    LET base == ("type" :> (IF Has(component_data, "type")
                            THEN component_data["type"] ELSE "Unknown")) @@
                ("name" :> (IF Has(component_data, "name")
                            THEN component_data["name"] ELSE component_name))
        withSamples ==
            IF Has(component_data, "Samples")
            THEN Set(base, "samples",
                     ListEntriesFrom(EmptyDict, component_data["Samples"], 1))
            ELSE base
        withEvents ==
            IF Has(component_data, "Events")
            THEN Set(withSamples, "events",
                     ListEntriesFrom(EmptyDict, component_data["Events"], 1))
            ELSE withSamples
    IN  IF Has(component_data, "Conditions")
        THEN Set(withEvents, "conditions", component_data["Conditions"])
        ELSE withEvents

RECURSIVE ConvertComponentsFrom(_, _, _)
ConvertComponentsFrom(converted, components, i) ==
    IF i > Len(components.keys) THEN converted
    ELSE ConvertComponentsFrom(
             DictPut(converted, components.keys[i],
                     ConvertedComponent(components.keys[i],
                                        components.m[components.keys[i]])),
             components, i + 1)

\* convert_xml_to_json_structure: the components are those found under the
\* keys MTConnectStreams, DeviceStream, Device and Components of the parsed
\* root; the header is empty and the device is named 'Mazak'.
convert_xml_to_json_structure(xml_data) ==
    LET found ==
            /\ Has(xml_data, "MTConnectStreams")
            /\ Has(xml_data["MTConnectStreams"], "DeviceStream")
            /\ Has(xml_data["MTConnectStreams"]["DeviceStream"], "Device")
            /\ Has(xml_data["MTConnectStreams"]["DeviceStream"]["Device"], "Components")
        components ==
            IF found
            THEN ConvertComponentsFrom(
                     EmptyDict,
                     xml_data["MTConnectStreams"]["DeviceStream"]["Device"]["Components"], 1)
            ELSE EmptyDict
    IN  ("header" :> EmptyMap) @@
        ("device" :> (("name" :> "Mazak") @@ ("uuid" :> "Mazak") @@
                      ("components" :> components)))

\* The end of process_machine_data: a merged document without a device, or
\* whose device has no components, is given empty ones.
EnsureStructure(data) ==
    IF DOMAIN data = {} THEN data
    ELSE LET withDevice ==
                 IF Has(data, "device") THEN data
                 ELSE Set(data, "device",
                          ("name" :> "Mazak") @@ ("uuid" :> "Mazak") @@
                          ("components" :> EmptyDict))
         IN  IF Has(withDevice["device"], "components") THEN withDevice
             ELSE Set(withDevice, "device",
                      Set(withDevice["device"], "components", EmptyDict))

SourceRecord(source_type, file_info) ==
    [source_type |-> source_type, source_file |-> file_info.filename,
     data_type |-> file_info.data_type, timestamp |-> file_info.timestamp]

(***************************************************************************)
(* The merge on documents in memory.  dict.copy() is a shallow copy, so    *)
(* the dict of a device and the dict of a component are objects that the   *)
(* argument documents and the merged document share: heap.device and       *)
(* heap.component map the address of such an object to its content, and a  *)
(* document in memory holds the address of its device where a parsed       *)
(* document holds the device itself.  The samples, events and conditions   *)
(* dicts and their lists are copied before they are changed, so they are   *)
(* kept as values.                                                         *)
(***************************************************************************)
EmptyHeap == [device |-> EmptyMap, component |-> EmptyMap]

RECURSIVE AddressesFrom(_, _, _, _)
\* The components dict of document n with addresses in place of contents.
AddressesFrom(addressed, components, n, i) ==
    IF i > Len(components.keys) THEN addressed
    ELSE AddressesFrom(DictPut(addressed, components.keys[i], <<n, components.keys[i]>>),
                       components, n, i + 1)

\* json.load of a file into memory as the n-th document: every dict of
\* the document is a new object.
LoadedHeap(h, data, n) ==
    [device |-> (n :> Set(data["device"], "components",
                          AddressesFrom(EmptyDict, data["device"]["components"], n, 1)))
                @@ h.device,
     component |-> [a \in {<<n, c>> : c \in DOMAIN data["device"]["components"].m} |->
                       data["device"]["components"].m[a[2]]]
                   @@ h.component]
LoadedDocument(data, n) == Set(data, "device", n)

RECURSIVE ContentsFrom(_, _, _, _)
ContentsFrom(contents, h, components, i) ==
    IF i > Len(components.keys) THEN contents
    ELSE ContentsFrom(DictPut(contents, components.keys[i],
                              h.component[components.m[components.keys[i]]]),
                      h, components, i + 1)

\* json.dumps of a document in memory: the document with the contents of
\* its objects.
Serialised(h, doc) ==
    IF ~Has(doc, "device") THEN doc
    ELSE Set(doc, "device",
             IF Has(h.device[doc["device"]], "components")
             THEN Set(h.device[doc["device"]], "components",
                      ContentsFrom(EmptyDict, h, h.device[doc["device"]]["components"], 1))
             ELSE h.device[doc["device"]])

RECURSIVE MergeComponentObjectsFrom(_, _, _, _)
\* The loop of merge_components: a component that merged lacks is put in by
\* reference; a component that merged holds is the object of the existing
\* document, and the loop assigns to its keys.
MergeComponentObjectsFrom(h, merged, new_components, i) ==
    IF i > Len(new_components.keys) THEN [heap |-> h, components |-> merged]
    ELSE LET component_name == new_components.keys[i]
             component_data == new_components.m[component_name]
         IN  IF ~DictHas(merged, component_name)
             THEN MergeComponentObjectsFrom(
                      h, DictPut(merged, component_name, component_data),
                      new_components, i + 1)
             ELSE LET existing == merged.m[component_name]
                  IN  MergeComponentObjectsFrom(
                          [h EXCEPT !.component[existing] =
                              MergeExistingComponent(h.component[existing],
                                                     h.component[component_data])],
                          merged, new_components, i + 1)

\* merge_components on dicts of component objects.
MergeComponentObjects(h, existing_components, new_components) ==
    IF EmptyOrdered(existing_components)
    THEN [heap |-> h, components |-> new_components]
    ELSE MergeComponentObjectsFrom(h, existing_components, new_components, 1)

\* merge_machine_data on documents in memory: the heap after the call and
\* the document returned.  merged is a shallow copy of existing_data, so
\* merged['device'] is the device object of existing_data.
MergeDocumentObjects(h, existing_data, new_data) ==
    IF DOMAIN existing_data = {} THEN [heap |-> h, merged |-> new_data]
    ELSE LET old == existing_data["device"]
             new == new_data["device"]
             r == MergeComponentObjects(h, h.device[old]["components"],
                                        h.device[new]["components"])
             afterDevice ==
                 IF Has(new_data, "device") /\ Has(existing_data, "device")
                 THEN IF Has(h.device[new], "components") /\ Has(h.device[old], "components")
                      THEN [heap |-> [r.heap EXCEPT !.device[old] =
                                         Set(@, "components", r.components)],
                            merged |-> existing_data]
                      ELSE IF Has(h.device[new], "components")
                      THEN [heap |-> [h EXCEPT !.device[old] =
                                         Set(@, "components", h.device[new]["components"])],
                            merged |-> existing_data]
                      ELSE [heap |-> h, merged |-> existing_data]
                 ELSE IF Has(new_data, "device")
                 THEN [heap |-> h, merged |-> Set(existing_data, "device", new)]
                 ELSE [heap |-> h, merged |-> existing_data]
         IN  IF Has(new_data, "header")
             THEN [afterDevice EXCEPT !.merged = Set(@, "header", new_data["header"])]
             ELSE afterDevice

(***************************************************************************)
(* combined_data_reader.py: process_samples and process_events flatten the *)
(* merged document of a machine (the value of the key 'data' of its file)  *)
(* into rows, one for each member of an entry that is a list.  Of a row    *)
(* the component, the data item and the reading are kept.                  *)
(***************************************************************************)
\* if isinstance(sample_list, list): for sample_data in sample_list: ...
RowsOfEntry(component_id, name, entry) ==
    IF entry.list
    THEN [k \in 1..Len(entry.es) |->
             [component_id |-> component_id, name |-> name, reading |-> entry.es[k]]]
    ELSE <<>>

RECURSIVE RowsOfEntriesFrom(_, _, _)
RowsOfEntriesFrom(component_id, entries, i) ==
    IF i > Len(entries.keys) THEN <<>>
    ELSE RowsOfEntry(component_id, entries.keys[i], entries.m[entries.keys[i]])
             \o RowsOfEntriesFrom(component_id, entries, i + 1)

RECURSIVE RowsOfComponentsFrom(_, _, _)
RowsOfComponentsFrom(components, category, i) ==
    IF i > Len(components.keys) THEN <<>>
    ELSE LET component_id == components.keys[i]
             component_data == components.m[component_id]
         IN  (IF Has(component_data, category)
              THEN RowsOfEntriesFrom(component_id, component_data[category], 1)
              ELSE <<>>)
                 \o RowsOfComponentsFrom(components, category, i + 1)

ComponentsToFlatten(data) ==
    IF Has(data, "device") /\ Has(data["device"], "components")
    THEN data["device"]["components"] ELSE EmptyDict

process_samples(data) == RowsOfComponentsFrom(ComponentsToFlatten(data), "samples", 1)
process_events(data) == RowsOfComponentsFrom(ComponentsToFlatten(data), "events", 1)

(***************************************************************************)
(* database.py: process_xml_file and the tables it writes.  A table of     *)
(* facts is the sequence of its rows in insertion order; of a row the      *)
(* columns of the uniqueness constraint of setup_constraints are kept.     *)
(* The id of a device_stream or component_stream row is represented by     *)
(* the row's unique key, which RETURNING id maps one to one.               *)
(***************************************************************************)
MaxLoads == 3

SequenceTexts == <<"1", "2", "3">>
NullTime == [null |-> TRUE, t |-> 0]
TimeOf(t) == [null |-> FALSE, t |-> t]

\* parse_iso of database.py: datetime.fromisoformat raises ValueError for a
\* text that is not an ISO timestamp.
database_parse_iso(ts) ==
    IF \E t \in 1..Len(AwareStamps) : AwareStamps[t] = ts
    THEN [exc |-> "", time |-> TimeOf(CHOOSE t \in 1..Len(AwareStamps) : AwareStamps[t] = ts)]
    ELSE IF \E t \in 1..Len(NaiveStamps) : NaiveStamps[t] = ts
    THEN [exc |-> "", time |-> TimeOf(CHOOSE t \in 1..Len(NaiveStamps) : NaiveStamps[t] = ts)]
    ELSE [exc |-> "ValueError", time |-> NullTime]

\* int(text)
IntOf(text) ==
    IF \E n \in 1..Len(SequenceTexts) : SequenceTexts[n] = text
    THEN [exc |-> "", n |-> CHOOSE n \in 1..Len(SequenceTexts) : SequenceTexts[n] = text]
    ELSE [exc |-> "ValueError", n |-> 0]

\* A child element of Samples, Events or Condition: "" stands for an
\* attribute that the element does not have.
FactElement(tag, timestamp, sequence) ==
    [tag |-> tag, timestamp |-> timestamp, sequence |-> sequence]

FactRow(comp_stream_id, tag, time, sequence) ==
    [component_stream_id |-> comp_stream_id, tag |-> tag,
     timestamp |-> time, sequence |-> sequence]

\* The row written for a child of Samples or Condition: attrib['timestamp']
\* and attrib['sequence'] raise KeyError when the attribute is absent.
RequiredRow(comp_stream_id, elem) ==
    IF elem.timestamp = "" THEN [exc |-> "KeyError", row |-> <<>>]
    ELSE IF database_parse_iso(elem.timestamp).exc # ""
    THEN [exc |-> database_parse_iso(elem.timestamp).exc, row |-> <<>>]
    ELSE IF elem.sequence = "" THEN [exc |-> "KeyError", row |-> <<>>]
    ELSE IF IntOf(elem.sequence).exc # "" THEN [exc |-> IntOf(elem.sequence).exc, row |-> <<>>]
    ELSE [exc |-> "",
          row |-> FactRow(comp_stream_id, elem.tag,
                          database_parse_iso(elem.timestamp).time, IntOf(elem.sequence).n)]

\* The row written for a child of Events: the timestamp is None when the
\* attribute is absent, the sequence 0.
EventRow(comp_stream_id, elem) ==
    IF elem.timestamp # "" /\ database_parse_iso(elem.timestamp).exc # ""
    THEN [exc |-> database_parse_iso(elem.timestamp).exc, row |-> <<>>]
    ELSE IF elem.sequence # "" /\ IntOf(elem.sequence).exc # ""
    THEN [exc |-> IntOf(elem.sequence).exc, row |-> <<>>]
    ELSE [exc |-> "",
          row |-> FactRow(comp_stream_id, elem.tag,
                          IF elem.timestamp = "" THEN NullTime
                          ELSE database_parse_iso(elem.timestamp).time,
                          IF elem.sequence = "" THEN 0 ELSE IntOf(elem.sequence).n)]

RECURSIVE RowsFrom(_, _, _, _, _)
\* The rows written to one buffer for the children elems, after rows.
RowsFrom(rows, comp_stream_id, elems, required, i) ==
    IF i > Len(elems) THEN [exc |-> "", rows |-> rows]
    ELSE LET r == IF required THEN RequiredRow(comp_stream_id, elems[i])
                  ELSE EventRow(comp_stream_id, elems[i])
         IN  IF r.exc # "" THEN [exc |-> r.exc, rows |-> rows]
             ELSE RowsFrom(Append(rows, r.row), comp_stream_id, elems, required, i + 1)

EmptyBuffers == [exc |-> "", component_stream |-> {},
                 sample |-> <<>>, event |-> <<>>, condition |-> <<>>]

RECURSIVE BuffersFrom(_, _, _, _)
\* The loop over the ComponentStream elements: each is upserted into
\* component_stream and its children are written to the three buffers.
BuffersFrom(buffers, device_stream_id, comps, i) ==
    IF i > Len(comps) THEN buffers
    ELSE LET comp == comps[i]
             comp_stream_id == [device_stream_id |-> device_stream_id,
                                component_id |-> comp.componentId]
             samples == RowsFrom(buffers.sample, comp_stream_id, comp.samples, TRUE, 1)
             events == RowsFrom(buffers.event, comp_stream_id, comp.events, FALSE, 1)
             conditions == RowsFrom(buffers.condition, comp_stream_id, comp.conditions, TRUE, 1)
         IN  IF samples.exc # "" THEN [buffers EXCEPT !.exc = samples.exc]
             ELSE IF events.exc # "" THEN [buffers EXCEPT !.exc = events.exc]
             ELSE IF conditions.exc # "" THEN [buffers EXCEPT !.exc = conditions.exc]
             ELSE BuffersFrom(
                      [exc |-> "",
                       component_stream |-> buffers.component_stream \cup {comp_stream_id},
                       sample |-> samples.rows, event |-> events.rows,
                       condition |-> conditions.rows],
                      device_stream_id, comps, i + 1)

\* Two rows collide under UNIQUE (component_stream_id, tag, timestamp,
\* sequence): a row whose timestamp is NULL collides with no row.
Collide(r1, r2) == r1 = r2 /\ ~r1.timestamp.null

\* COPY of the rows of a buffer into a table raises UniqueViolation when a
\* row collides with a row of the table or with an earlier row of the
\* buffer.
CopyViolates(table, rows) ==
    LET all == table \o rows
    IN  \E i \in 1..Len(all), j \in (Len(table) + 1)..Len(all) :
            i < j /\ Collide(all[i], all[j])

EmptyTables == [device_stream |-> {}, component_stream |-> {},
                sample |-> <<>>, event |-> <<>>, condition |-> <<>>]

\* process_xml_file(cur, xml_file): what it returns or raises and the
\* tables that the transaction of cur sees afterwards.  committed is what
\* a rollback leaves, constraints whether the database has the unique
\* constraints of setup_constraints.
process_xml_file(tables, committed, constraints, xml_file) ==
    IF ~xml_file.wellFormed THEN [outcome |-> "None", tables |-> tables, exc |-> ""]
    ELSE IF xml_file.ns \notin {"1.5", "2.0"} THEN [outcome |-> "None", tables |-> tables, exc |-> ""]
    ELSE IF ~xml_file.hasHeader THEN [outcome |-> "None", tables |-> tables, exc |-> ""]
    ELSE IF ~xml_file.hasDeviceStream THEN [outcome |-> "None", tables |-> tables, exc |-> ""]
    ELSE IF database_parse_iso(xml_file.creationTime).exc # ""
    THEN [outcome |-> "raised", tables |-> committed,
          exc |-> database_parse_iso(xml_file.creationTime).exc]
    ELSE IF ~constraints
    THEN [outcome |-> "raised", tables |-> committed, exc |-> "psycopg2.Error"]
    ELSE LET device_stream_id ==
                 [device_name |-> xml_file.deviceName, instance_id |-> xml_file.instanceId,
                  creation_time |-> database_parse_iso(xml_file.creationTime).time]
             buffers == BuffersFrom(EmptyBuffers, device_stream_id, xml_file.streams, 1)
         IN  IF buffers.exc # ""
             THEN [outcome |-> "raised", tables |-> committed, exc |-> buffers.exc]
             ELSE IF CopyViolates(tables.sample, buffers.sample)
                     \/ CopyViolates(tables.event, buffers.event)
                     \/ CopyViolates(tables.condition, buffers.condition)
             THEN [outcome |-> "skipped", tables |-> committed, exc |-> ""]
             ELSE [outcome |-> "loaded", exc |-> "",
                   tables |-> [device_stream |-> tables.device_stream \cup {device_stream_id},
                               component_stream |->
                                   tables.component_stream \cup buffers.component_stream,
                               sample |-> tables.sample \o buffers.sample,
                               event |-> tables.event \o buffers.event,
                               condition |-> tables.condition \o buffers.condition]]

RowCounts(tables) ==
    [sample |-> Len(tables.sample), event |-> Len(tables.event),
     condition |-> Len(tables.condition)]

(***************************************************************************)
(* The XML files that main of database.py finds.                           *)
(***************************************************************************)
StreamOf(componentId, samples, events, conditions) ==
    [componentId |-> componentId, samples |-> samples, events |-> events,
     conditions |-> conditions]

StreamsFile(name, ns, t, streams) ==
    [name |-> name, wellFormed |-> TRUE, ns |-> ns, hasHeader |-> TRUE,
     hasDeviceStream |-> TRUE, deviceName |-> "m", instanceId |-> "1",
     creationTime |-> AwareStamps[t], streams |-> streams]

XmlFiles ==
    {StreamsFile("full.xml", "1.5", 1,
         <<StreamOf("x", <<FactElement("Xabs", AwareStamps[1], "1")>>,
                         <<FactElement("mode", AwareStamps[1], "2")>>,
                         <<FactElement("Normal", AwareStamps[1], "3")>>)>>),
     StreamsFile("later.xml", "2.0", 2,
         <<StreamOf("x", <<FactElement("Xabs", AwareStamps[2], "1")>>, <<>>, <<>>)>>),
     StreamsFile("events.xml", "1.5", 1,
         <<StreamOf("x", <<>>, <<FactElement("mode", AwareStamps[1], "2")>>, <<>>)>>),
     StreamsFile("untimed.xml", "1.5", 1,
         <<StreamOf("y", <<>>, <<FactElement("message", "", "")>>, <<>>)>>),
     StreamsFile("repeated.xml", "1.5", 1,
         <<StreamOf("z", <<FactElement("Zabs", AwareStamps[1], "1"),
                           FactElement("Zabs", AwareStamps[1], "1")>>, <<>>, <<>>)>>),
     StreamsFile("unstamped.xml", "1.5", 2,
         <<StreamOf("x", <<FactElement("Xabs", "", "1")>>, <<>>, <<>>)>>),
     StreamsFile("devices.xml", "other", 1, <<>>),
     [StreamsFile("broken.xml", "1.5", 1, <<>>) EXCEPT !.wellFormed = FALSE],
     [StreamsFile("headless.xml", "1.5", 1, <<>>) EXCEPT !.hasHeader = FALSE]}

(***************************************************************************)
(* load_data_efficient.py.  A dimension table is the sequence of its rows; *)
(* the id of a new row is the next value of the table's serial.  A fact    *)
(* table is the sequence of its rows, of which the columns that identify   *)
(* a reading are kept.                                                     *)
(***************************************************************************)
MaxRows == 3
MaxRuns == 2
\* Stand-ins for batch_size = 100000 and chunk_size = 50000.
batch_size == 2
chunk_size == 2

CsvRow(machine_name, component_id, data_type, name, timestamp, sequence) ==
    [machine_name |-> machine_name, component_id |-> component_id,
     component_type |-> "Linear", component_name |-> component_id,
     data_type |-> data_type, name |-> name, timestamp |-> timestamp,
     sequence |-> sequence]

\* Rows of a processed CSV file: two spellings of one machine, a second
\* machine, rows of both data types, a row whose timestamp does not parse.
CsvRows ==
    {CsvRow("mazak_1_vtc_200", "x", "sample", "Xabs", AwareStamps[1], "1"),
     CsvRow("mazak_1_vtc_200", "x", "current", "Xabs", AwareStamps[2], "2"),
     CsvRow("VTC-200-001", "x", "sample", "Xabs", AwareStamps[1], "1"),
     CsvRow("mazak_1_vtc_200", "y", "sample", "Yabs", "not a time", "1"),
     CsvRow("lathe", "x", "sample", "Xabs", AwareStamps[1], "1")}

EmptyCsvTables ==
    [machines |-> <<>>, components |-> <<>>, data_streams |-> <<>>,
     samples |-> <<>>, events |-> <<>>]

\* The rows of a table that a SELECT ... WHERE matches: their positions.
Matching(table, key) == {k \in 1..Len(table) : table[k].key = key}
\* cur.fetchone() after such a SELECT: the id of a matching row.
FetchId(table, key) == table[CHOOSE k \in Matching(table, key) :
                                 \A j \in Matching(table, key) : k <= j].id
\* INSERT ... RETURNING id
Inserted(table, key) == Append(table, [id |-> Len(table) + 1, key |-> key])

machine_mapping(machine_name) ==
    IF machine_name = "mazak_1_vtc_200" THEN "VTC-200-001"
    ELSE IF machine_name = "mazak_2_vtc_300" THEN "VTC-300-001"
    ELSE IF machine_name = "mazak_3_350msy" THEN "350MSY-001"
    ELSE IF machine_name = "mazak_4_vtc_300c" THEN "VTC-300C-001"
    ELSE machine_name

get_machine_id_by_name(tables, machine_name) ==
    LET db_machine_name == machine_mapping(machine_name)
    IN  IF Matching(tables.machines, db_machine_name) # {}
        THEN [id |-> FetchId(tables.machines, db_machine_name), tables |-> tables]
        ELSE [id |-> Len(tables.machines) + 1,
              tables |-> [tables EXCEPT !.machines = Inserted(@, db_machine_name)]]

get_or_create_component(tables, machine_id, component_id) ==
    LET key == [machine_id |-> machine_id, component_id |-> component_id]
    IN  IF Matching(tables.components, key) # {}
        THEN [id |-> FetchId(tables.components, key), tables |-> tables]
        ELSE [id |-> Len(tables.components) + 1,
              tables |-> [tables EXCEPT !.components = Inserted(@, key)]]

get_or_create_data_stream(tables, machine_id, data_type) ==
    LET stream_type == IF data_type = "sample" THEN "SAMPLE" ELSE "CURRENT"
        key == [machine_id |-> machine_id, stream_type |-> stream_type]
    IN  IF Matching(tables.data_streams, key) # {}
        THEN [id |-> FetchId(tables.data_streams, key), tables |-> tables]
        ELSE [id |-> Len(tables.data_streams) + 1,
              tables |-> [tables EXCEPT !.data_streams = Inserted(@, key)]]

\* The first pass asking the store whatever the cache holds.
NotCached_IgnoresCache(lookup, key) == TRUE
\* 'key not in lookup' of the first pass.
NotCached(lookup, key) == key \notin DOMAIN lookup

NoLookups == [machine |-> EmptyMap, component |-> EmptyMap, stream |-> EmptyMap]

\* The body of the loop that builds the lookup tables, for one row: the
\* lookups after it, the tables after it and the queries it has issued.
BuildLookups(lookups, tables, row) ==
    LET askMachine == NotCached(lookups.machine, row.machine_name)
        m == get_machine_id_by_name(tables, row.machine_name)
        machine_id == IF askMachine THEN m.id ELSE lookups.machine[row.machine_name]
        tables1 == IF askMachine THEN m.tables ELSE tables
        lookup_key == <<machine_id, row.component_id>>
        askComponent == NotCached(lookups.component, lookup_key)
        c == get_or_create_component(tables1, machine_id, row.component_id)
        tables2 == IF askComponent THEN c.tables ELSE tables1
        stream_key == <<machine_id, row.data_type>>
        askStream == NotCached(lookups.stream, stream_key)
        d == get_or_create_data_stream(tables2, machine_id, row.data_type)
    IN  [lookups |->
             [machine |-> IF askMachine
                          THEN (row.machine_name :> m.id) @@ lookups.machine
                          ELSE lookups.machine,
              component |-> IF askComponent
                            THEN (lookup_key :> c.id) @@ lookups.component
                            ELSE lookups.component,
              stream |-> IF askStream
                         THEN (stream_key :> d.id) @@ lookups.stream
                         ELSE lookups.stream],
         tables |-> IF askStream THEN d.tables ELSE tables2,
         queries |-> (IF askMachine THEN <<<<"machine", row.machine_name>>>> ELSE <<>>)
                     \o (IF askComponent THEN <<<<"component", lookup_key>>>> ELSE <<>>)
                     \o (IF askStream THEN <<<<"stream", stream_key>>>> ELSE <<>>)]

\* datetime.fromisoformat(row['timestamp'].replace('Z', '+00:00'))
FromIsoFormat(text) ==
    IF \E t \in 1..Len(AwareStamps) : AwareStamps[t] = text
    THEN [exc |-> "", time |-> CHOOSE t \in 1..Len(AwareStamps) : AwareStamps[t] = text]
    ELSE IF \E t \in 1..Len(NaiveStamps) : NaiveStamps[t] = text
    THEN [exc |-> "", time |-> CHOOSE t \in 1..Len(NaiveStamps) : NaiveStamps[t] = text]
    ELSE [exc |-> "ValueError", time |-> 0]

\* The row that the second pass writes to the buffer for a row of the
\* file, from the lookup tables alone.
ConvertedRow(lookups, row) ==
    LET machine_id == lookups.machine[row.machine_name]
    IN  IF FromIsoFormat(row.timestamp).exc # ""
        THEN [exc |-> FromIsoFormat(row.timestamp).exc, row |-> <<>>]
        ELSE IF IntOf(row.sequence).exc # ""
        THEN [exc |-> IntOf(row.sequence).exc, row |-> <<>>]
        ELSE [exc |-> "",
              row |-> [data_stream_id |-> lookups.stream[<<machine_id, row.data_type>>],
                       component_id |-> lookups.component[<<machine_id, row.component_id>>],
                       name |-> row.name,
                       timestamp |-> FromIsoFormat(row.timestamp).time,
                       sequence |-> IntOf(row.sequence).n]]

\* The columns that identify a reading.
FactKey(r) == <<r.component_id, r.name, r.timestamp, r.sequence>>

\* The connection of main before psycopg2.connect.  A connection carries
\* the tables as its transaction sees them, whether the transaction has
\* failed, and the session's setting of session_replication_role: as the
\* session has it now, and as the last commit left it, which is what a
\* rollback brings back ('origin' is the default).
NoConnection ==
    [open |-> FALSE, tables |-> EmptyCsvTables, failed |-> FALSE,
     session_replication_role |-> "origin", committed_role |-> "origin"]

\* cur.copy_expert of the buffer: in a transaction that has failed every
\* command raises; under a uniqueness constraint on the fact table a row
\* that repeats the key of a row of the table or of the buffer raises
\* UniqueViolation; otherwise the rows are appended.
CopyRaises(conn, unique, table, buf) ==
    \/ conn.failed
    \/ /\ unique
       /\ LET all == table \o buf
          IN  \E i \in 1..Len(all), j \in (Len(table) + 1)..Len(all) :
                  i < j /\ FactKey(all[i]) = FactKey(all[j])

\* cur.connection.commit(): in a transaction that has failed, COMMIT rolls
\* back.  A SET that the transaction executed lasts if the transaction
\* commits and is undone if it is rolled back.
Committed(db, conn) ==
    IF conn.failed THEN db ELSE [db EXCEPT !.tables = conn.tables]
AfterCommit(db, conn) ==
    [conn EXCEPT !.tables = Committed(db, conn).tables, !.failed = FALSE,
                 !.session_replication_role =
                     IF conn.failed THEN conn.committed_role ELSE @,
                 !.committed_role =
                     IF conn.failed THEN @ ELSE conn.session_replication_role]
\* conn.rollback()
AfterRollback(db, conn) ==
    [conn EXCEPT !.tables = db.tables, !.failed = FALSE,
                 !.session_replication_role = conn.committed_role]
\* cur.execute("SET session_replication_role = ...") and conn.commit()
WithRole(conn, role) ==
    [conn EXCEPT !.session_replication_role = role, !.committed_role = role]

(***************************************************************************)
(* mazak_data_loader.py.  A table is the set of its rows; a row carries    *)
(* the columns that the loader reads or joins on and its serial id.        *)
(***************************************************************************)
MaxFacts == 2
\* The longest fact file of one component: more than the rows between two
\* commits of load_time_series_data.
MaxBatchRows == 6

MazakTables ==
    {"data_types", "component_types", "machines", "machine_configurations",
     "machine_components", "machine_conditions", "machine_samples", "machine_events",
     "data_processing_batches"}
FactTables == {"machine_conditions", "machine_samples", "machine_events"}
EmptyMazakTables == [t \in MazakTables |-> {}]

\* The next value of the serial behind the id of a table.
NextId(table) ==
    IF table = {} THEN 1
    ELSE 1 + CHOOSE n \in {r.id : r \in table} : \A r \in table : r.id <= n
InsertRow(table, fields) == table \cup {[id |-> NextId(table), fields |-> fields]}
IdOf(table, fields) == (CHOOSE r \in table : r.fields = fields).id
\* INSERT ... ON CONFLICT on the columns kept: the row is there once.
Upsert(table, fields) ==
    IF \E r \in table : r.fields = fields THEN table ELSE InsertRow(table, fields)

data_types == <<"current", "sample">>
component_types ==
    <<"Adapter", "Linear", "Rotary", "Controller", "Path", "Axes", "Coolant", "Device",
      "Electric", "Hydraulic", "Lubrication", "Pneumatic", "Door", "Personnel", "Stock",
      "Agent">>

RECURSIVE UpsertEach(_, _, _)
UpsertEach(table, names, k) ==
    IF k > Len(names) THEN table
    ELSE UpsertEach(Upsert(table, [name |-> names[k]]), names, k + 1)

load_reference_data(tables) ==
    [tables EXCEPT !.data_types = UpsertEach(@, data_types, 1),
                   !.component_types = UpsertEach(@, component_types, 1)]

\* df.drop_duplicates on machine_name and device_uuid, then for each row
\* INSERT ... ON CONFLICT (machine_name, device_uuid) DO NOTHING.
RECURSIVE InsertMachinesFrom(_, _, _)
InsertMachinesFrom(table, rows, k) ==
    IF k > Len(rows) THEN table
    ELSE InsertMachinesFrom(
             Upsert(table, [machine_name |-> rows[k].machine_name,
                            device_uuid |-> rows[k].device_uuid]),
             rows, k + 1)
load_machines_data(tables, machines_csv) ==
    [tables EXCEPT !.machines = InsertMachinesFrom(@, machines_csv, 1)]

\* The ids of the rows of machines with a machine name, lowest first.
MachineIdsNamed(tables, machine_name) ==
    {m.id : m \in {r \in tables.machines : r.fields.machine_name = machine_name}}
DataTypeIdsNamed(tables, name) ==
    {d.id : d \in {r \in tables.data_types : r.fields.name = name}}
ComponentTypeIdsNamed(tables, name) ==
    {c.id : c \in {r \in tables.component_types : r.fields.name = name}}
Lowest(ids) == CHOOSE n \in ids : \A m \in ids : n <= m

\* INSERT ... SELECT over the rows that the FROM and WHERE clauses produce,
\* one per pair of ids, each with ON CONFLICT on the columns kept.
RECURSIVE UpsertForMachines(_, _, _)
UpsertForMachines(table, machine_ids, fieldsFor) ==
    IF machine_ids = {} THEN table
    ELSE UpsertForMachines(Upsert(table, fieldsFor[Lowest(machine_ids)]),
                           machine_ids \ {Lowest(machine_ids)}, fieldsFor)

RECURSIVE InsertConfigurationsFrom(_, _, _)
InsertConfigurationsFrom(tables, rows, k) ==
    IF k > Len(rows) THEN tables
    ELSE LET machine_ids ==
                 {m.id : m \in {r \in tables.machines :
                      /\ r.fields.machine_name = rows[k].machine_name
                      /\ r.fields.device_uuid = rows[k].device_uuid}}
             dts == DataTypeIdsNamed(tables, rows[k].data_type)
             fieldsFor ==
                 [machine_id \in machine_ids |->
                      [machine_id |-> machine_id, data_type_id |-> Lowest(dts)]]
         IN  InsertConfigurationsFrom(
                 IF dts = {} THEN tables
                 ELSE [tables EXCEPT !.machine_configurations =
                           UpsertForMachines(@, machine_ids, fieldsFor)],
                 rows, k + 1)
load_machine_configurations(tables, machines_csv) ==
    InsertConfigurationsFrom(tables, machines_csv, 1)

\* The component of a row of components.csv is inserted for the rows that
\* FROM machines m, data_types dt, component_types ct WHERE ... selects:
\* none when no component type has the row's component_type.
RECURSIVE InsertComponentsFrom(_, _, _)
InsertComponentsFrom(tables, rows, k) ==
    IF k > Len(rows) THEN tables
    ELSE LET machine_ids == MachineIdsNamed(tables, rows[k].machine_name)
             dts == DataTypeIdsNamed(tables, rows[k].data_type)
             cts == ComponentTypeIdsNamed(tables, rows[k].component_type)
             fieldsFor ==
                 [machine_id \in machine_ids |->
                      [machine_id |-> machine_id, data_type_id |-> Lowest(dts),
                       component_identifier |-> rows[k].component_id]]
         IN  InsertComponentsFrom(
                 IF dts = {} \/ cts = {} THEN tables
                 ELSE [tables EXCEPT !.machine_components =
                           UpsertForMachines(@, machine_ids, fieldsFor)],
                 rows, k + 1)
load_components_data(tables, components_csv) ==
    InsertComponentsFrom(tables, components_csv, 1)

\* The rows of the SELECT that fills the lookup cache: key and ids.
CacheRows(tables) ==
    {[key |-> <<m.fields.machine_name, dt.fields.name, mc.fields.component_identifier>>,
      ids |-> [component_id |-> mc.id, machine_id |-> m.id, data_type_id |-> dt.id]] :
         <<mc, m, dt>> \in
             {t \in tables.machine_components \X tables.machines \X tables.data_types :
                  /\ t[1].fields.machine_id = t[2].id
                  /\ t[1].fields.data_type_id = t[3].id}}
\* lookup_cache after the loop over cursor.fetchall(): of the rows with one
\* key the last one fetched stays, and the order of the rows is the
\* database's.
LookupCaches(tables) ==
    LET keys == {c.key : c \in CacheRows(tables)}
    IN  {cache \in [keys -> {c.ids : c \in CacheRows(tables)}] :
             \A key \in keys : [key |-> key, ids |-> cache[key]] \in CacheRows(tables)}

CacheKey(row) == <<row.machine_name, row.data_type, row.component_id>>

\* The loop over the rows that inserts a row without a cache entry with
\* null ids.
RECURSIVE InsertFactsWithNullIds(_, _, _, _)
InsertFactsWithNullIds(table, lookup_cache, rows, k) ==
    IF k > Len(rows) THEN table
    ELSE InsertFactsWithNullIds(
             IF CacheKey(rows[k]) \in DOMAIN lookup_cache
             THEN InsertRow(table,
                      [component_id |-> lookup_cache[CacheKey(rows[k])].component_id,
                       machine_id |-> lookup_cache[CacheKey(rows[k])].machine_id,
                       data_type_id |-> lookup_cache[CacheKey(rows[k])].data_type_id,
                       source |-> rows[k]])
             ELSE InsertRow(table, [component_id |-> 0, machine_id |-> 0,
                                    data_type_id |-> 0, source |-> rows[k]]),
             lookup_cache, rows, k + 1)

\* The loop over the rows of the file: a row whose key is in the cache is
\* inserted with the ids of the cache, any other row is logged and passed
\* over.
RECURSIVE InsertFactsFrom(_, _, _, _)
InsertFactsFrom(table, lookup_cache, rows, k) ==
    IF k > Len(rows) THEN table
    ELSE InsertFactsFrom(
             IF CacheKey(rows[k]) \in DOMAIN lookup_cache
             THEN InsertRow(table,
                      [component_id |-> lookup_cache[CacheKey(rows[k])].component_id,
                       machine_id |-> lookup_cache[CacheKey(rows[k])].machine_id,
                       data_type_id |-> lookup_cache[CacheKey(rows[k])].data_type_id,
                       source |-> rows[k]])
             ELSE table,
             lookup_cache, rows, k + 1)

\* Stand-in for chunk_size = 5000 of load_time_series_data.
rows_per_chunk == 1

\* The number of chunks of a file.
ChunksOf(rows) == (Len(rows) + rows_per_chunk - 1) \div rows_per_chunk

\* The loop over the chunks of pd.read_csv from the chunk that starts at row
\* first: the rows of a chunk are inserted with one execute_values, and the
\* transaction is committed after a chunk when processed_rows is a multiple
\* of chunk_size * 5, and after the last chunk.  An error of the database in
\* chunk number fault_at (or in the last commit, one past the last chunk;
\* 0: no error) is caught, the transaction rolled back and the error raised
\* again.
RECURSIVE LoadChunksFrom(_, _, _, _, _, _, _)
LoadChunksFrom(tables, committed, table_name, rows, lookup_cache, first, fault_at) ==
    LET last == IF first + rows_per_chunk - 1 < Len(rows)
                THEN first + rows_per_chunk - 1 ELSE Len(rows)
        inserted == [tables EXCEPT ![table_name] =
                         InsertFactsFrom(@, lookup_cache, SubSeq(rows, first, last), 1)]
    IN  IF first > Len(rows)
        THEN IF fault_at = ChunksOf(rows) + 1
             THEN [raised |-> TRUE, tables |-> committed, committed |-> committed]
             ELSE [raised |-> FALSE, tables |-> tables, committed |-> tables]
        ELSE IF fault_at = ((first - 1) \div rows_per_chunk) + 1
        THEN [raised |-> TRUE, tables |-> committed, committed |-> committed]
        ELSE LoadChunksFrom(inserted,
                            IF last % (rows_per_chunk * 5) = 0 THEN inserted ELSE committed,
                            table_name, rows, lookup_cache, last + 1, fault_at)

\* load_time_series_data undoing, when it fails, the rows of the whole call.
load_time_series_data_AllOrNothing(tables, committed, table_name, rows, lookup_cache, fault_at) ==
    IF fault_at = 0
    THEN LoadChunksFrom(tables, committed, table_name, rows, lookup_cache, 1, 0)
    ELSE [raised |-> TRUE, tables |-> committed, committed |-> committed]

load_time_series_data(tables, committed, table_name, rows, lookup_cache, fault_at) ==
    LoadChunksFrom(tables, committed, table_name, rows, lookup_cache, 1, fault_at)

\* INSERT ... SELECT ... FROM machines m, data_types dt WHERE ... ON CONFLICT
\* (file_name) DO NOTHING, for every row of metadata.csv.
RECURSIVE InsertBatchesFrom(_, _, _)
InsertBatchesFrom(tables, rows, k) ==
    IF k > Len(rows) THEN tables
    ELSE LET machine_ids == MachineIdsNamed(tables, rows[k].machine_name)
             dts == DataTypeIdsNamed(tables, rows[k].data_type)
             present == \E r \in tables.data_processing_batches :
                            r.fields.file_name = rows[k].file_name
         IN  InsertBatchesFrom(
                 IF machine_ids = {} \/ dts = {} \/ present THEN tables
                 ELSE [tables EXCEPT !.data_processing_batches =
                           InsertRow(@, [file_name |-> rows[k].file_name,
                                         machine_id |-> Lowest(machine_ids),
                                         data_type_id |-> Lowest(dts)])],
                 rows, k + 1)
load_metadata(tables, metadata_csv) == InsertBatchesFrom(tables, metadata_csv, 1)

\* DELETE FROM each of the eight tables of tables_to_clear, in that order.
\* data_processing_batches is not among them and references machines and
\* data_types: while it holds a row the DELETE FROM machines raises
\* ForeignKeyViolation.
ClearRaises(tables) ==
    \E b \in tables.data_processing_batches :
        \/ \E m \in tables.machines : m.id = b.fields.machine_id
        \/ \E d \in tables.data_types : d.id = b.fields.data_type_id
clear_all_data(tables) ==
    [t \in MazakTables |->
         IF t = "data_processing_batches" THEN tables[t] ELSE {}]

\* The steps of run_full_load in the order of its body.
Steps ==
    <<"connect", "create_schema", "clear_all_data", "load_reference_data",
      "load_machines_data", "load_machine_configurations", "load_components_data",
      "load_conditions_data", "load_samples_data", "load_events_data", "load_metadata",
      "create_views", "disconnect">>
StepIndex(step) == CHOOSE k \in 1..Len(Steps) : Steps[k] = step

\* run_full_load going on with the next step whatever the outcome.
StepAfter_GoesOn(step, ok) == Steps[StepIndex(step) + 1]
\* The step that follows a step of the try block: the next one when the step
\* returned, the finally clause when it raised.
StepAfter(step, ok) ==
    IF ok THEN Steps[StepIndex(step) + 1] ELSE "disconnect"

FactCount(tables) ==
    Cardinality(tables.machine_conditions) + Cardinality(tables.machine_samples)
        + Cardinality(tables.machine_events)

\* The files of the data directory, as combined_data_reader.py writes them
\* from merged documents: a row of components.csv per component, a row of
\* machines.csv and of metadata.csv per merged document, fact rows of
\* components of components.csv.
ComponentRow(machine_name, data_type, component_id, component_type) ==
    [machine_name |-> machine_name, data_type |-> data_type,
     component_id |-> component_id, component_type |-> component_type]
ComponentRows ==
    <<ComponentRow("mazak_1_vtc_200", "current", "x", "Linear"),
      ComponentRow("mazak_1_vtc_200", "sample", "x", "Linear"),
      ComponentRow("mazak_1_vtc_200", "current", "cool", "Systems")>>
RECURSIVE Picked(_, _, _)
Picked(rows, chosen, k) ==
    IF k > Len(rows) THEN <<>>
    ELSE (IF k \in chosen THEN <<rows[k]>> ELSE <<>>) \o Picked(rows, chosen, k + 1)
RECURSIVE MergedDocumentsOf(_, _, _)
MergedDocumentsOf(components, uuids, k) ==
    IF k > Len(components) THEN <<>>
    ELSE LET rest == MergedDocumentsOf(components, uuids, k + 1)
             doc == [machine_name |-> components[k].machine_name,
                     data_type |-> components[k].data_type,
                     device_uuid |-> uuids[components[k].data_type],
                     file_name |-> <<components[k].machine_name, components[k].data_type>>]
         IN  IF \E j \in 1..Len(rest) : rest[j] = doc THEN rest ELSE <<doc>> \o rest
DataDirectory(chosen, uuids, facts) ==
    [components |-> Picked(ComponentRows, chosen, 1),
     machines |-> MergedDocumentsOf(Picked(ComponentRows, chosen, 1), uuids, 1),
     metadata |-> MergedDocumentsOf(Picked(ComponentRows, chosen, 1), uuids, 1),
     facts |-> facts]

(***************************************************************************)
(* Two invocations of load_data_efficient.py against one database whose    *)
(* machines table has a unique index on name.  Each invocation has its own *)
(* connection and transaction (READ COMMITTED): a SELECT sees the rows     *)
(* that are committed and those its own transaction inserted; an INSERT of *)
(* a name that another transaction has inserted and not yet committed      *)
(* waits for that transaction to end; an INSERT of a name that a committed *)
(* row holds raises UniqueViolation.  Ids come from a sequence, which no   *)
(* rollback sets back.  Of the CSV file of an invocation the machine_name  *)
(* column is kept.                                                         *)
(***************************************************************************)
MaxRaceRows == 2
Invocations == {"first", "second"}
RaceNames == {"mazak_1_vtc_200", "mazak_2_vtc_300"}

NoInvocation == [pc |-> "idle", i |-> 1, machine_lookup |-> EmptyMap, pending |-> <<>>]

\* The rows of machines that a statement of an invocation sees.
Visible(db, proc) == db.machines \o proc.pending

\* Whether another transaction holds a row of the name that is not yet
\* committed, so that an INSERT of the name waits.
WaitsForOther(procs, p, db_machine_name) ==
    \E q \in Invocations \ {p} : Matching(procs[q].pending, db_machine_name) # {}

\* The SELECT of get_machine_id_by_name: the id found, or 0 for no row.
SelectMachineId(db, proc, machine_name) ==
    IF Matching(Visible(db, proc), machine_mapping(machine_name)) # {}
    THEN FetchId(Visible(db, proc), machine_mapping(machine_name))
    ELSE 0

NotRun == [exc |-> "pending", result |-> EmptyDict, winners |-> <<>>]
NotConverted == [returned |-> "pending", exc |-> "", document |-> NoDocument]

\* The values of the variables of a specification that is not the one
\* being run.
DedupIdle == items = <<>> /\ item_type = "samples" /\ dedupOut = NotRun
ConvIdle == xml_string = MalformedDocument /\ convOut = NotConverted
MergeIdle == merged_data = EmptyMap /\ ingested = <<>>
ProcessIdle ==
    /\ files_info = [json |-> <<>>, xml |-> <<>>]
    /\ progress = [json |-> 1, xml |-> 1, returned |-> TRUE]
    /\ data_sources = <<>>
FoldIdle ==
    /\ heap = EmptyHeap
    /\ documents = <<>>
    /\ folding = [round |-> "done", next |-> 1, merged |-> EmptyMap]
    /\ folded = <<>>
\* No run of main of database.py has started.
NoSession == [open |-> FALSE, tables |-> EmptyTables, done |-> {},
              exit |-> "none", error |-> ""]
XmlLoadIdle ==
    /\ store = [constraints |-> FALSE, tables |-> EmptyTables]
    /\ session = NoSession
    /\ load_log = <<>>
CsvIdle ==
    /\ csv_file = <<>>
    /\ csv_store = [unique |-> FALSE, tables |-> EmptyCsvTables]
    /\ csv_conn = NoConnection
    /\ csv_load = [pc |-> "done", kind |-> "samples", i |-> 1, lookups |-> NoLookups,
                   buf |-> <<>>, batch_count |-> 0]
    /\ csv_trace = [runs |-> 0, before |-> <<>>, converted |-> <<>>, queries |-> <<>>,
                    outcome |-> "none"]
NoTrace == [lookup_cache |-> EmptyMap, before |-> EmptyMazakTables, fault_at |-> 0]
MazakIdle ==
    /\ mz_files = [components |-> <<>>, machines |-> <<>>, metadata |-> <<>>, facts |-> <<>>]
    /\ mz_db = [schema |-> FALSE, views |-> FALSE, tables |-> EmptyMazakTables]
    /\ mz_conn = [open |-> FALSE, tables |-> EmptyMazakTables]
    /\ mz_run = [step |-> "idle", log |-> <<>>, runs |-> 0, outcome |-> "none"]
    /\ mz_trace = NoTrace

RaceIdle ==
    /\ race_files = [p \in Invocations |-> <<>>]
    /\ race_db = [machines |-> <<>>, serial |-> 0]
    /\ race_proc = [p \in Invocations |-> NoInvocation]

(***************************************************************************)
(* SpecDedup: one call of deduplicate_data_items on every input list.      *)
(***************************************************************************)
InitDedup ==
    /\ items \in SeqsUpTo({ItemOf(e) : e \in Elements}, MaxItems)
    /\ item_type \in {"samples", "conditions"}
    /\ dedupOut = NotRun
    /\ xml_string = MalformedDocument
    /\ convOut = NotConverted
    /\ merged_data = EmptyMap
    /\ ingested = <<>>
    /\ ProcessIdle
    /\ FoldIdle
    /\ XmlLoadIdle
    /\ CsvIdle
    /\ MazakIdle
    /\ RaceIdle

Deduplicate ==
    /\ dedupOut.exc = "pending"
    /\ dedupOut' = deduplicate_data_items(items, item_type)
    /\ UNCHANGED <<items, item_type, convVars, mergeVars, processVars, foldVars, xmlLoadVars, csvVars, mazakVars, raceVars>>

NextDedup == Deduplicate

SpecDedup == InitDedup /\ [][NextDedup]_vars

(***************************************************************************)
(* SpecConvert: one call of convert_xml_to_json_deduplicated on every      *)
(* input document.                                                         *)
(***************************************************************************)
InitConvert ==
    /\ \/ \E container \in Containers :
            \E children \in SeqsUpTo(ChildElements(container), MaxChildren) :
                xml_string = Document("", TRUE, <<ComponentStream("x", container, children)>>)
       \/ \E ns \in Namespaces, ds \in BOOLEAN, more \in MoreStreams, container \in Containers :
            \E children \in SeqsUpTo(ChildElements(container), 1) :
                xml_string = Document(ns, ds, <<ComponentStream("x", container, children)>> \o more)
       \/ \E ns \in Namespaces, ds \in BOOLEAN : xml_string = Document(ns, ds, <<>>)
       \/ xml_string = MalformedDocument
    /\ convOut = NotConverted
    /\ items = <<>>
    /\ item_type = "samples"
    /\ dedupOut = NotRun
    /\ merged_data = EmptyMap
    /\ ingested = <<>>
    /\ ProcessIdle
    /\ FoldIdle
    /\ XmlLoadIdle
    /\ CsvIdle
    /\ MazakIdle
    /\ RaceIdle

Convert ==
    /\ convOut.returned = "pending"
    /\ convOut' = convert_xml_to_json_deduplicated(xml_string)
    /\ UNCHANGED <<xml_string, dedupVars, mergeVars, processVars, foldVars, xmlLoadVars, csvVars, mazakVars, raceVars>>

NextConvert == Convert

SpecConvert == InitConvert /\ [][NextConvert]_vars

(***************************************************************************)
(* SpecMerge: up to MaxDocs documents are merged, one after the other,     *)
(* into the cumulative document, which starts as None.                     *)
(***************************************************************************)
InitMerge ==
    /\ merged_data = EmptyMap
    /\ ingested = <<>>
    /\ items = <<>>
    /\ item_type = "samples"
    /\ dedupOut = NotRun
    /\ xml_string = MalformedDocument
    /\ convOut = NotConverted
    /\ ProcessIdle
    /\ FoldIdle
    /\ XmlLoadIdle
    /\ CsvIdle
    /\ MazakIdle
    /\ RaceIdle

\* One round of the loop of process_machine_data: a document freshly loaded
\* from its file is merged into the cumulative document.
Merge(data) ==
    /\ Len(ingested) < MaxDocs
    /\ merged_data' = merge_machine_data(merged_data, data)
    /\ ingested' = Append(ingested, data)
    /\ UNCHANGED <<dedupVars, convVars, processVars, foldVars, xmlLoadVars, csvVars, mazakVars, raceVars>>

NextMerge == \E data \in ParsedDocuments : Merge(data)

SpecMerge == InitMerge /\ [][NextMerge]_vars

(***************************************************************************)
(* SpecProcess: one call of process_machine_data on the files of one       *)
(* machine, one step for each file of its two loops and one for its end.   *)
(***************************************************************************)
InitProcess ==
    /\ \E json \in Listings("json", 1..MaxT), xml \in Listings("xml", 1..MaxT) :
           files_info = [json |-> json, xml |-> xml]
    /\ progress = [json |-> 1, xml |-> 1, returned |-> FALSE]
    /\ data_sources = <<>>
    /\ MergeIdle
    /\ DedupIdle
    /\ ConvIdle
    /\ FoldIdle
    /\ XmlLoadIdle
    /\ CsvIdle
    /\ MazakIdle
    /\ RaceIdle

\* One round of the loop over the JSON files.
ProcessJsonFile ==
    /\ ~progress.returned
    /\ progress.json <= Len(files_info.json)
    /\ LET file_info == files_info.json[progress.json]
           data == file_info.content
       IN  IF DOMAIN data # {}
           THEN /\ merged_data' = merge_machine_data(merged_data, data)
                /\ ingested' = Append(ingested, data)
                /\ data_sources' = Append(data_sources, SourceRecord("json", file_info))
           ELSE UNCHANGED <<merged_data, ingested, data_sources>>
    /\ progress' = [progress EXCEPT !.json = @ + 1]
    /\ UNCHANGED <<files_info, dedupVars, convVars, foldVars, xmlLoadVars, csvVars, mazakVars, raceVars>>

\* One round of the loop over the XML files, which starts when the loop
\* over the JSON files has ended.
ProcessXmlFile ==
    /\ ~progress.returned
    /\ progress.json > Len(files_info.json)
    /\ progress.xml <= Len(files_info.xml)
    /\ LET file_info == files_info.xml[progress.xml]
           data == file_info.content
           converted_data == convert_xml_to_json_structure(data)
       IN  IF DOMAIN data # {}
           THEN /\ merged_data' = merge_machine_data(merged_data, converted_data)
                /\ ingested' = Append(ingested, converted_data)
                /\ data_sources' = Append(data_sources, SourceRecord("xml", file_info))
           ELSE UNCHANGED <<merged_data, ingested, data_sources>>
    /\ progress' = [progress EXCEPT !.xml = @ + 1]
    /\ UNCHANGED <<files_info, dedupVars, convVars, foldVars, xmlLoadVars, csvVars, mazakVars, raceVars>>

\* The end of the call, after both loops.
ReturnMerged ==
    /\ ~progress.returned
    /\ progress.json > Len(files_info.json)
    /\ progress.xml > Len(files_info.xml)
    /\ merged_data' = EnsureStructure(merged_data)
    /\ progress' = [progress EXCEPT !.returned = TRUE]
    /\ UNCHANGED <<files_info, ingested, data_sources, dedupVars, convVars, foldVars, xmlLoadVars, csvVars, mazakVars, raceVars>>

NextProcess == ProcessJsonFile \/ ProcessXmlFile \/ ReturnMerged

SpecProcess == InitProcess /\ [][NextProcess]_vars

(***************************************************************************)
(* SpecFold: up to MaxDocs documents are loaded into memory; then the      *)
(* list of them is folded with merge_machine_data twice, each fold         *)
(* starting from None, and the result of each fold is written out with     *)
(* json.dumps when the fold ends.                                          *)
(***************************************************************************)
InitFold ==
    /\ heap = EmptyHeap
    /\ documents = <<>>
    /\ folding = [round |-> "load", next |-> 1, merged |-> EmptyMap]
    /\ folded = <<>>
    /\ DedupIdle
    /\ ConvIdle
    /\ MergeIdle
    /\ ProcessIdle
    /\ XmlLoadIdle
    /\ CsvIdle
    /\ MazakIdle
    /\ RaceIdle

LoadDocument(data) ==
    /\ folding.round = "load"
    /\ Len(documents) < MaxDocs
    /\ heap' = LoadedHeap(heap, data, Len(documents) + 1)
    /\ documents' = Append(documents, LoadedDocument(data, Len(documents) + 1))
    /\ UNCHANGED <<folding, folded, dedupVars, convVars, mergeVars, processVars, xmlLoadVars, csvVars, mazakVars, raceVars>>

BeginFolds ==
    /\ folding.round = "load"
    /\ documents # <<>>
    /\ folding' = [folding EXCEPT !.round = "first"]
    /\ UNCHANGED <<heap, documents, folded, dedupVars, convVars, mergeVars, processVars, xmlLoadVars, csvVars, mazakVars, raceVars>>

\* merged = merge_machine_data(merged, documents[next])
FoldNext ==
    /\ folding.round \in {"first", "second"}
    /\ folding.next <= Len(documents)
    /\ LET r == MergeDocumentObjects(heap, folding.merged, documents[folding.next])
       IN  /\ heap' = r.heap
           /\ folding' = [folding EXCEPT !.merged = r.merged, !.next = @ + 1]
    /\ UNCHANGED <<documents, folded, dedupVars, convVars, mergeVars, processVars, xmlLoadVars, csvVars, mazakVars, raceVars>>

\* The fold has gone through the list: its result is written out and the
\* next fold starts from None.
FinishFold ==
    /\ folding.round \in {"first", "second"}
    /\ folding.next > Len(documents)
    /\ folded' = Append(folded, Serialised(heap, folding.merged))
    /\ folding' = [round |-> IF folding.round = "first" THEN "second" ELSE "done",
                   next |-> 1, merged |-> EmptyMap]
    /\ UNCHANGED <<heap, documents, dedupVars, convVars, mergeVars, processVars, xmlLoadVars, csvVars, mazakVars, raceVars>>

NextFold ==
    \/ \E data \in ParsedDocuments : LoadDocument(data)
    \/ BeginFolds
    \/ FoldNext
    \/ FinishFold

SpecFold == InitFold /\ [][NextFold]_vars

(***************************************************************************)
(* SpecXmlLoad: runs of main of database.py, one after the other, against  *)
(* one database whose tables exist.  A run connects, calls                 *)
(* process_xml_file for files of the directory, each at most once, and     *)
(* commits; an exception that process_xml_file raises ends the run with a  *)
(* rollback.                                                               *)
(***************************************************************************)
InitXmlLoad ==
    /\ \E constraints \in BOOLEAN :
           store = [constraints |-> constraints, tables |-> EmptyTables]
    /\ session = NoSession
    /\ load_log = <<>>
    /\ DedupIdle
    /\ ConvIdle
    /\ MergeIdle
    /\ ProcessIdle
    /\ FoldIdle
    /\ CsvIdle
    /\ MazakIdle
    /\ RaceIdle

\* How main is left when exc is raised inside its try block: the clauses
\* except psycopg2.Error and except Exception print the error, roll back
\* and close the connection if there is one, and main goes on to its end.
ExitOfMain(exc) == "returned"

\* psycopg2.connect raises OperationalError: the server cannot be reached.
ConnectFails ==
    /\ ~session.open
    /\ Len(load_log) < MaxLoads
    /\ session' = [open |-> FALSE, tables |-> EmptyTables, done |-> {},
                   exit |-> ExitOfMain("psycopg2.Error"), error |-> "psycopg2.Error"]
    /\ UNCHANGED <<store, load_log, dedupVars, convVars, mergeVars, processVars, foldVars, csvVars, mazakVars, raceVars>>

\* psycopg2.connect: the transaction of the run sees the committed tables.
Connect ==
    /\ ~session.open
    /\ Len(load_log) < MaxLoads
    /\ session' = [open |-> TRUE, tables |-> store.tables, done |-> {},
                   exit |-> "running", error |-> ""]
    /\ UNCHANGED <<store, load_log, dedupVars, convVars, mergeVars, processVars, foldVars, csvVars, mazakVars, raceVars>>

\* One call process_xml_file(cur, xml_file) of the loop of main.
ProcessXmlFileCall(xml_file) ==
    /\ session.open
    /\ Len(load_log) < MaxLoads
    /\ xml_file.name \notin session.done
    /\ LET r == process_xml_file(session.tables, store.tables, store.constraints, xml_file)
       IN  /\ session' = [open |-> r.outcome # "raised", tables |-> r.tables,
                          done |-> session.done \cup {xml_file.name},
                          exit |-> IF r.outcome = "raised"
                                   THEN ExitOfMain(r.exc) ELSE "running",
                          error |-> r.exc]
           /\ load_log' = Append(load_log, [file |-> xml_file.name, outcome |-> r.outcome,
                                            counts |-> RowCounts(r.tables)])
    /\ UNCHANGED <<store, dedupVars, convVars, mergeVars, processVars, foldVars, csvVars, mazakVars, raceVars>>

\* conn.commit() and conn.close() at the end of the run.
CommitAndClose ==
    /\ session.open
    /\ store' = [store EXCEPT !.tables = session.tables]
    /\ session' = [session EXCEPT !.open = FALSE, !.exit = "returned"]
    /\ UNCHANGED <<load_log, dedupVars, convVars, mergeVars, processVars, foldVars, csvVars, mazakVars, raceVars>>

NextXmlLoad ==
    \/ Connect
    \/ ConnectFails
    \/ \E xml_file \in XmlFiles : ProcessXmlFileCall(xml_file)
    \/ CommitAndClose

SpecXmlLoad == InitXmlLoad /\ [][NextXmlLoad]_vars

(***************************************************************************)
(* SpecCsvLoad: runs of main of load_data_efficient.py, one after the      *)
(* other, with --samples or with --events, over one file of data-dir and   *)
(* one database.  Whether the fact tables of that database carry a         *)
(* uniqueness constraint on the identifying columns is not decided by the  *)
(* loader: both databases are considered.                                  *)
(***************************************************************************)
InitCsvLoad ==
    /\ csv_file \in SeqsUpTo(CsvRows, MaxRows)
    /\ \E unique \in BOOLEAN : csv_store = [unique |-> unique, tables |-> EmptyCsvTables]
    /\ csv_conn = NoConnection
    /\ csv_load = [pc |-> "done", kind |-> "samples", i |-> 1, lookups |-> NoLookups,
                   buf |-> <<>>, batch_count |-> 0]
    /\ csv_trace = [runs |-> 0, before |-> <<>>, converted |-> <<>>, queries |-> <<>>,
                    outcome |-> "none"]
    /\ DedupIdle
    /\ ConvIdle
    /\ MergeIdle
    /\ ProcessIdle
    /\ FoldIdle
    /\ XmlLoadIdle
    /\ MazakIdle
    /\ RaceIdle

otherThanCsv ==
    <<dedupVars, convVars, mergeVars, processVars, foldVars, xmlLoadVars, mazakVars, raceVars>>

\* main: psycopg2.connect, SET session_replication_role = replica and the
\* call of the loader, up to its first loop.
StartLoad(kind) ==
    /\ ~csv_conn.open
    /\ csv_trace.runs < MaxRuns
    /\ csv_conn' = [open |-> TRUE, tables |-> csv_store.tables, failed |-> FALSE,
                    session_replication_role |-> "replica", committed_role |-> "origin"]
    /\ csv_load' = [pc |-> "lookups", kind |-> kind, i |-> 1, lookups |-> NoLookups,
                    buf |-> <<>>, batch_count |-> 0]
    /\ csv_trace' = [runs |-> csv_trace.runs + 1, before |-> csv_store.tables[kind],
                     converted |-> <<>>, queries |-> <<>>, outcome |-> "running"]
    /\ UNCHANGED <<csv_file, csv_store, otherThanCsv>>

\* One row of the loop that builds the lookup tables; load_samples_efficient
\* commits after every chunk_size rows.
BuildLookupsStep ==
    /\ csv_load.pc = "lookups"
    /\ csv_load.i <= Len(csv_file)
    /\ LET b == BuildLookups(csv_load.lookups, csv_conn.tables, csv_file[csv_load.i])
           conn == [csv_conn EXCEPT !.tables = b.tables]
           commits == csv_load.kind = "samples" /\ csv_load.i % chunk_size = 0
       IN  /\ csv_load' = [csv_load EXCEPT !.lookups = b.lookups, !.i = @ + 1]
           /\ csv_trace' = [csv_trace EXCEPT
                  !.queries = @ \o [k \in 1..Len(b.queries) |-> <<"lookups">> \o b.queries[k]]]
           /\ csv_store' = IF commits THEN Committed(csv_store, conn) ELSE csv_store
           /\ csv_conn' = IF commits THEN AfterCommit(csv_store, conn) ELSE conn
    /\ UNCHANGED <<csv_file, otherThanCsv>>

\* The end of the first loop; load_events_efficient commits here.
StartWriting ==
    /\ csv_load.pc = "lookups"
    /\ csv_load.i > Len(csv_file)
    /\ csv_load' = [csv_load EXCEPT !.pc = "rows", !.i = 1, !.buf = <<>>, !.batch_count = 0]
    /\ csv_store' = IF csv_load.kind = "events"
                    THEN Committed(csv_store, csv_conn) ELSE csv_store
    /\ csv_conn' = IF csv_load.kind = "events"
                   THEN AfterCommit(csv_store, csv_conn) ELSE csv_conn
    /\ UNCHANGED <<csv_file, csv_trace, otherThanCsv>>

\* One row of the loop that writes the facts.  A row that does not convert
\* is passed over.  A converted row joins the buffer; when batch_count
\* reaches a multiple of batch_size the buffer is copied to the table, then
\* emptied and the transaction committed.  An exception of the copy is
\* caught with those of the conversion: the buffer stays as it is.
WriteRowStep ==
    /\ csv_load.pc = "rows"
    /\ csv_load.i <= Len(csv_file)
    /\ LET c == ConvertedRow(csv_load.lookups, csv_file[csv_load.i])
           buf == Append(csv_load.buf, c.row)
           batch_count == csv_load.batch_count + 1
           table == csv_conn.tables[csv_load.kind]
           copied == [csv_conn EXCEPT !.tables[csv_load.kind] = table \o buf]
       IN  IF c.exc # ""
           THEN /\ csv_load' = [csv_load EXCEPT !.i = @ + 1]
                /\ UNCHANGED <<csv_store, csv_conn, csv_trace>>
           ELSE /\ csv_trace' = [csv_trace EXCEPT !.converted = Append(@, c.row)]
                /\ IF batch_count % batch_size # 0
                   THEN /\ csv_load' = [csv_load EXCEPT !.i = @ + 1, !.buf = buf,
                                                        !.batch_count = batch_count]
                        /\ UNCHANGED <<csv_store, csv_conn>>
                   ELSE IF CopyRaises(csv_conn, csv_store.unique, table, buf)
                   THEN /\ csv_load' = [csv_load EXCEPT !.i = @ + 1, !.buf = buf,
                                                        !.batch_count = batch_count]
                        /\ csv_conn' = [csv_conn EXCEPT !.failed = TRUE]
                        /\ UNCHANGED csv_store
                   ELSE /\ csv_load' = [csv_load EXCEPT !.i = @ + 1, !.buf = <<>>,
                                                        !.batch_count = batch_count]
                        /\ csv_store' = Committed(csv_store, copied)
                        /\ csv_conn' = AfterCommit(csv_store, copied)
    /\ UNCHANGED <<csv_file, otherThanCsv>>

\* The end of the second loop: the remaining rows are copied if batch_count
\* is not a multiple of batch_size, and the transaction is committed; main
\* sets session_replication_role to DEFAULT, commits and closes.  An
\* exception of this copy reaches main, which rolls back, closes and
\* raises.  A closed connection keeps the setting its session ended with.
FinishLoad ==
    /\ csv_load.pc = "rows"
    /\ csv_load.i > Len(csv_file)
    /\ LET table == csv_conn.tables[csv_load.kind]
           remaining == csv_load.batch_count % batch_size # 0
           copied == IF remaining
                     THEN [csv_conn EXCEPT !.tables[csv_load.kind] = table \o csv_load.buf]
                     ELSE csv_conn
       IN  IF remaining /\ CopyRaises(csv_conn, csv_store.unique, table, csv_load.buf)
           THEN /\ csv_conn' = [AfterRollback(csv_store, csv_conn) EXCEPT !.open = FALSE]
                /\ csv_trace' = [csv_trace EXCEPT !.outcome = "raised"]
                /\ UNCHANGED csv_store
           ELSE /\ csv_store' = Committed(csv_store, copied)
                /\ csv_conn' = [WithRole(AfterCommit(csv_store, copied), "origin")
                                    EXCEPT !.open = FALSE]
                /\ csv_trace' = [csv_trace EXCEPT !.outcome = "loaded"]
    /\ csv_load' = [csv_load EXCEPT !.pc = "done"]
    /\ UNCHANGED <<csv_file, otherThanCsv>>

NextCsvLoad ==
    \/ \E kind \in {"samples", "events"} : StartLoad(kind)
    \/ BuildLookupsStep
    \/ StartWriting
    \/ WriteRowStep
    \/ FinishLoad

SpecCsvLoad == InitCsvLoad /\ [][NextCsvLoad]_vars

(***************************************************************************)
(* SpecFullLoad: runs of run_full_load of mazak_data_loader.py, one after  *)
(* the other, over one data directory and one database.  Any step may meet *)
(* an error of the database server; clear_all_data also raises when a      *)
(* DELETE violates a foreign key.                                          *)
(***************************************************************************)
InitFullLoad ==
    /\ \E chosen \in (SUBSET (1..Len(ComponentRows))) \ {{}},
          sample_uuid \in {"u1", "u2"} :
           \E facts \in SeqsUpTo({Picked(ComponentRows, chosen, 1)[k] :
                                      k \in 1..Cardinality(chosen)}, MaxFacts)
                           \cup {[k \in 1..n |-> Picked(ComponentRows, chosen, 1)[1]] :
                                     n \in 1..MaxBatchRows} :
               mz_files = DataDirectory(chosen, [current |-> "u1", sample |-> sample_uuid],
                                        facts)
    /\ mz_db = [schema |-> FALSE, views |-> FALSE, tables |-> EmptyMazakTables]
    /\ mz_conn = [open |-> FALSE, tables |-> EmptyMazakTables]
    /\ mz_run = [step |-> "idle", log |-> <<>>, runs |-> 0, outcome |-> "none"]
    /\ mz_trace = NoTrace
    /\ DedupIdle
    /\ ConvIdle
    /\ MergeIdle
    /\ ProcessIdle
    /\ FoldIdle
    /\ XmlLoadIdle
    /\ CsvIdle
    /\ RaceIdle

otherThanMazak ==
    <<dedupVars, convVars, mergeVars, processVars, foldVars, xmlLoadVars, csvVars, raceVars>>

\* What the run has logged of a step: the exception it raised, if any, and
\* the number of fact rows committed after it.
LogEntry(step, error, tables) ==
    [step |-> step, ok |-> error = "", error |-> error, facts |-> FactCount(tables)]

\* The end of a step with its try, except and finally clauses: commit when
\* it returned, rollback when it raised; run_full_load goes on accordingly.
StepEnds(step, ok, tables) ==
    /\ mz_db' = IF ok THEN [mz_db EXCEPT !.tables = tables] ELSE mz_db
    /\ mz_conn' = [mz_conn EXCEPT !.tables = IF ok THEN tables ELSE mz_db.tables]
    /\ mz_run' = [mz_run EXCEPT
           !.step = StepAfter(step, ok),
           !.log = Append(@, LogEntry(step, IF ok THEN "" ELSE "server",
                                      IF ok THEN tables ELSE mz_db.tables))]

\* run_full_load is called; self.connect().
StepConnect ==
    /\ mz_run.step = "idle"
    /\ mz_run.runs < MaxRuns
    /\ \E fault \in BOOLEAN :
           /\ mz_conn' = [open |-> ~fault, tables |-> mz_db.tables]
           /\ mz_run' = [step |-> StepAfter("connect", ~fault),
                         log |-> <<LogEntry("connect", IF fault THEN "server" ELSE "",
                                            mz_db.tables)>>,
                         runs |-> mz_run.runs + 1, outcome |-> "running"]
    /\ mz_trace' = NoTrace
    /\ UNCHANGED <<mz_files, mz_db, otherThanMazak>>

StepCreateSchema ==
    /\ mz_run.step = "create_schema"
    /\ \E fault \in BOOLEAN :
           /\ mz_db' = IF fault THEN mz_db ELSE [mz_db EXCEPT !.schema = TRUE]
           /\ mz_run' = [mz_run EXCEPT
                  !.step = StepAfter("create_schema", ~fault),
                  !.log = Append(@, LogEntry("create_schema",
                                             IF fault THEN "server" ELSE "", mz_db.tables))]
    /\ UNCHANGED <<mz_files, mz_conn, mz_trace, otherThanMazak>>

StepClearAllData ==
    /\ mz_run.step = "clear_all_data"
    /\ \E fault \in BOOLEAN :
           LET error == IF fault THEN "server"
                        ELSE IF ClearRaises(mz_conn.tables) THEN "ForeignKeyViolation"
                        ELSE ""
               tables == IF error = "" THEN clear_all_data(mz_conn.tables) ELSE mz_db.tables
           IN  /\ mz_db' = [mz_db EXCEPT !.tables = tables]
               /\ mz_conn' = [mz_conn EXCEPT !.tables = tables]
               /\ mz_run' = [mz_run EXCEPT
                      !.step = StepAfter("clear_all_data", error = ""),
                      !.log = Append(@, LogEntry("clear_all_data", error, tables))]
    /\ UNCHANGED <<mz_files, mz_trace, otherThanMazak>>

StepLoadReferenceData ==
    /\ mz_run.step = "load_reference_data"
    /\ \E fault \in BOOLEAN :
           StepEnds("load_reference_data", ~fault, load_reference_data(mz_conn.tables))
    /\ UNCHANGED <<mz_files, mz_trace, otherThanMazak>>

StepLoadMachinesData ==
    /\ mz_run.step = "load_machines_data"
    /\ \E fault \in BOOLEAN :
           StepEnds("load_machines_data", ~fault,
                    load_machines_data(mz_conn.tables, mz_files.machines))
    /\ UNCHANGED <<mz_files, mz_trace, otherThanMazak>>

StepLoadMachineConfigurations ==
    /\ mz_run.step = "load_machine_configurations"
    /\ \E fault \in BOOLEAN :
           StepEnds("load_machine_configurations", ~fault,
                    load_machine_configurations(mz_conn.tables, mz_files.machines))
    /\ UNCHANGED <<mz_files, mz_trace, otherThanMazak>>

StepLoadComponentsData ==
    /\ mz_run.step = "load_components_data"
    /\ \E fault \in BOOLEAN :
           StepEnds("load_components_data", ~fault,
                    load_components_data(mz_conn.tables, mz_files.components))
    /\ UNCHANGED <<mz_files, mz_trace, otherThanMazak>>

TimeSeriesTable(step) ==
    IF step = "load_conditions_data" THEN "machine_conditions"
    ELSE IF step = "load_samples_data" THEN "machine_samples"
    ELSE "machine_events"

\* load_conditions_data, load_samples_data, load_events_data: one call of
\* load_time_series_data each.
StepLoadTimeSeries(step) ==
    /\ mz_run.step = step
    /\ \E fault_at \in 0..(ChunksOf(mz_files.facts) + 1),
          lookup_cache \in LookupCaches(mz_conn.tables) :
           LET r == load_time_series_data(mz_conn.tables, mz_db.tables,
                                          TimeSeriesTable(step), mz_files.facts,
                                          lookup_cache, fault_at)
           IN  /\ mz_db' = [mz_db EXCEPT !.tables = r.committed]
               /\ mz_conn' = [mz_conn EXCEPT !.tables = r.tables]
               /\ mz_run' = [mz_run EXCEPT
                      !.step = StepAfter(step, ~r.raised),
                      !.log = Append(@, LogEntry(step, IF r.raised THEN "server" ELSE "",
                                                 r.committed))]
               /\ mz_trace' = [lookup_cache |-> lookup_cache, before |-> mz_db.tables,
                               fault_at |-> fault_at]
    /\ UNCHANGED <<mz_files, otherThanMazak>>

StepLoadMetadata ==
    /\ mz_run.step = "load_metadata"
    /\ \E fault \in BOOLEAN :
           StepEnds("load_metadata", ~fault,
                    load_metadata(mz_conn.tables, mz_files.metadata))
    /\ UNCHANGED <<mz_files, mz_trace, otherThanMazak>>

StepCreateViews ==
    /\ mz_run.step = "create_views"
    /\ \E fault \in BOOLEAN :
           /\ mz_db' = IF fault THEN mz_db ELSE [mz_db EXCEPT !.views = TRUE]
           /\ mz_run' = [mz_run EXCEPT
                  !.step = StepAfter("create_views", ~fault),
                  !.log = Append(@, LogEntry("create_views",
                                             IF fault THEN "server" ELSE "", mz_db.tables))]
    /\ UNCHANGED <<mz_files, mz_conn, mz_trace, otherThanMazak>>

\* finally: self.disconnect(), which closes the connection if there is one;
\* the exception that the except clause has raised again, if any, leaves
\* run_full_load.
StepDisconnect ==
    /\ mz_run.step = "disconnect"
    /\ mz_conn' = [mz_conn EXCEPT !.open = FALSE]
    /\ mz_run' = [mz_run EXCEPT
           !.step = "idle",
           !.outcome = IF mz_run.log[Len(mz_run.log)].ok THEN "returned" ELSE "raised",
           !.log = Append(@, LogEntry("disconnect", "", mz_db.tables))]
    /\ UNCHANGED <<mz_files, mz_db, mz_trace, otherThanMazak>>

NextFullLoad ==
    \/ StepConnect
    \/ StepCreateSchema
    \/ StepClearAllData
    \/ StepLoadReferenceData
    \/ StepLoadMachinesData
    \/ StepLoadMachineConfigurations
    \/ StepLoadComponentsData
    \/ \E step \in {"load_conditions_data", "load_samples_data", "load_events_data"} :
           StepLoadTimeSeries(step)
    \/ StepLoadMetadata
    \/ StepCreateViews
    \/ StepDisconnect

SpecFullLoad == InitFullLoad /\ [][NextFullLoad]_vars

(***************************************************************************)
(* SpecRace: two invocations of main of load_data_efficient.py run at the  *)
(* same time against an empty machines table, their statements             *)
(* interleaved in any order.  The components and data streams of a row are *)
(* looked up in the same way as its machine and are left out.              *)
(***************************************************************************)
InitRace ==
    /\ race_files \in [Invocations -> SeqsUpTo(RaceNames, MaxRaceRows)]
    /\ race_db = [machines |-> <<>>, serial |-> 0]
    /\ race_proc = [p \in Invocations |-> [NoInvocation EXCEPT !.pc = "select"]]
    /\ DedupIdle
    /\ ConvIdle
    /\ MergeIdle
    /\ ProcessIdle
    /\ FoldIdle
    /\ XmlLoadIdle
    /\ CsvIdle
    /\ MazakIdle

otherThanRace ==
    <<dedupVars, convVars, mergeVars, processVars, foldVars, xmlLoadVars, csvVars, mazakVars>>

\* One row of the loop that builds the lookup tables, up to the result of
\* the SELECT of get_machine_id_by_name: a name in machine_lookup is not
\* looked up again, a name that the SELECT finds is put into machine_lookup,
\* and for a name that it does not find the INSERT comes next.
RaceSelect(p) ==
    /\ race_proc[p].pc = "select"
    /\ race_proc[p].i <= Len(race_files[p])
    /\ LET machine_name == race_files[p][race_proc[p].i]
           id == SelectMachineId(race_db, race_proc[p], machine_name)
       IN  race_proc' =
               IF machine_name \in DOMAIN race_proc[p].machine_lookup
               THEN [race_proc EXCEPT ![p].i = @ + 1]
               ELSE IF id # 0
               THEN [race_proc EXCEPT ![p].i = @ + 1,
                                      ![p].machine_lookup = (machine_name :> id) @@ @]
               ELSE [race_proc EXCEPT ![p].pc = "insert"]
    /\ UNCHANGED <<race_files, race_db, otherThanRace>>

\* The INSERT of get_machine_id_by_name, once no other transaction holds
\* an uncommitted row of the name.  If a committed row holds the name the
\* INSERT raises UniqueViolation, which nothing catches before main: main
\* rolls back, closes and raises.
RaceInsert(p) ==
    /\ race_proc[p].pc = "insert"
    /\ LET machine_name == race_files[p][race_proc[p].i]
           db_machine_name == machine_mapping(machine_name)
           id == race_db.serial + 1
       IN  /\ ~WaitsForOther(race_proc, p, db_machine_name)
           /\ IF Matching(race_db.machines, db_machine_name) # {}
              THEN /\ race_proc' = [race_proc EXCEPT ![p].pc = "raised", ![p].pending = <<>>]
                   /\ race_db' = [race_db EXCEPT !.serial = id]
              ELSE /\ race_proc' =
                          [race_proc EXCEPT
                              ![p].pc = "select", ![p].i = @ + 1,
                              ![p].machine_lookup = (machine_name :> id) @@ @,
                              ![p].pending = Append(@, [id |-> id, key |-> db_machine_name])]
                   /\ race_db' = [race_db EXCEPT !.serial = id]
    /\ UNCHANGED <<race_files, otherThanRace>>

\* Each of the two INSERTs waits for the transaction of the other: the
\* server ends the wait by making one of them raise DeadlockDetected.
RaceDeadlock(p) ==
    /\ \A q \in Invocations :
           /\ race_proc[q].pc = "insert"
           /\ WaitsForOther(race_proc, q, machine_mapping(race_files[q][race_proc[q].i]))
    /\ race_proc' = [race_proc EXCEPT ![p].pc = "raised", ![p].pending = <<>>]
    /\ UNCHANGED <<race_files, race_db, otherThanRace>>

\* The end of the file: the invocation loads its facts with the ids of
\* machine_lookup and commits.
RaceFinish(p) ==
    /\ race_proc[p].pc = "select"
    /\ race_proc[p].i > Len(race_files[p])
    /\ race_db' = [race_db EXCEPT !.machines = @ \o race_proc[p].pending]
    /\ race_proc' = [race_proc EXCEPT ![p].pc = "done", ![p].pending = <<>>]
    /\ UNCHANGED <<race_files, otherThanRace>>

NextRace ==
    \E p \in Invocations :
        \/ RaceSelect(p)
        \/ RaceInsert(p)
        \/ RaceDeadlock(p)
        \/ RaceFinish(p)

SpecRace == InitRace /\ [][NextRace]_vars

(***************************************************************************)
(* Properties of the deduplicator, checked under SpecDedup.                *)
(***************************************************************************)
DedupRan == dedupOut.exc # "pending"
DedupReturned == dedupOut.exc = ""

\* The positions of the input list whose item has the dataItemId id and a
\* timestamp that parses.
ParseablePositions(id) ==
    {i \in 1..Len(items) :
        /\ items[i].attrs["dataItemId"] = id
        /\ items[i].attrs["timestamp"].k = "str"
        /\ parse_iso(items[i].attrs["timestamp"]).exc = ""}
InstantAt(i) == parse_iso(items[i].attrs["timestamp"]).t
\* Those of them that carry the greatest timestamp of the id.
GreatestPositions(id) ==
    {i \in ParseablePositions(id) :
        \A j \in ParseablePositions(id) : InstantAt(j) <= InstantAt(i)}
InputIds == {items[i].attrs["dataItemId"] : i \in 1..Len(items)}
IdsWithParseable == {id \in InputIds : Truthy(id) /\ ParseablePositions(id) # {}}

\* The entry of the result carries the timestamp (and, for samples and
\* events, the value) of the item at position i.
CarriesItem(entry, i) ==
    /\ entry.timestamp = items[i].attrs["timestamp"]
    /\ item_type # "conditions" => entry.value = convert_value(items[i].text)

\* C1: for every raw item list, the result of deduplicate_data_items holds
\* exactly one entry for each dataItemId that has an item with a parseable
\* timestamp, and the entry carries the value and timestamp of an item
\* with the greatest timestamp of that dataItemId.
C1_OneLatestEntryPerId ==
    DedupRan =>
        \A id \in IdsWithParseable :
            /\ DedupReturned
            /\ Cardinality({k \in 1..Len(dedupOut.result.keys) :
                               dedupOut.result.keys[k] = id}) = 1
            /\ \E i \in GreatestPositions(id) : CarriesItem(dedupOut.result.m[id], i)

LastOf(S) == CHOOSE i \in S : \A j \in S : j <= i

\* C3: when several items of one dataItemId share the greatest timestamp,
\* the entry retained is the one of the last of them in document order.
C3_TieKeepsLastInDocumentOrder ==
    DedupReturned =>
        \A id \in IdsWithParseable :
            Cardinality(GreatestPositions(id)) >= 2 =>
                CarriesItem(dedupOut.result.m[id], LastOf(GreatestPositions(id)))

RECURSIVE ItemsOfWinners(_)
ItemsOfWinners(ws) ==
    IF ws = <<>> THEN <<>> ELSE <<Head(ws).item>> \o ItemsOfWinners(Tail(ws))

\* The already-deduplicated item list: the items a first pass retained.
DeduplicatedItems == ItemsOfWinners(dedupOut.winners)

\* C4: deduplicating the items that a first pass retained returns the same
\* entries as the first pass.
C4_DedupIdempotent ==
    DedupReturned =>
        LET again == deduplicate_data_items(DeduplicatedItems, item_type)
        IN  /\ again.exc = ""
            /\ again.result = dedupOut.result

\* A first pass that dropped items and kept entries for two dataItemIds.
C4_Witness ==
    /\ DedupReturned
    /\ Len(dedupOut.winners) = 2
    /\ Len(items) > Len(dedupOut.winners)

(***************************************************************************)
(* Properties of the converter, checked under SpecConvert.                 *)
(***************************************************************************)
ConvRan == convOut.returned # "pending"
ConvDocument == convOut.returned = "document"

\* The containers of the document that belong to a stream with a
\* componentId: pairs <<stream index, container name>>.
InputContainers ==
    {sc \in (1..Len(xml_string.streams)) \X Containers :
        /\ Truthy(convert_value(xml_string.streams[sc[1]].componentId))
        /\ xml_string.streams[sc[1]][sc[2]].present}
ChildrenOf(sc) == xml_string.streams[sc[1]][sc[2]].children
\* The output dict of the category of a container.
OutputOf(sc) ==
    convOut.document.device.components.m[
        convert_value(xml_string.streams[sc[1]].componentId)][CategoryKey(sc[2])]

ChildTimestamp(sc, i) == convert_value(ChildrenOf(sc)[i].timestamp)
\* The children of a container that carry the dataItemId id and a
\* timestamp that parses, whatever their tag.
ParseableChildren(sc, id) ==
    {i \in 1..Len(ChildrenOf(sc)) :
        /\ convert_value(ChildrenOf(sc)[i].dataItemId) = id
        /\ ChildTimestamp(sc, i).k = "str"
        /\ parse_iso(ChildTimestamp(sc, i)).exc = ""}
LatestChildren(sc, id) ==
    {i \in ParseableChildren(sc, id) :
        \A j \in ParseableChildren(sc, id) :
            parse_iso(ChildTimestamp(sc, j)).t <= parse_iso(ChildTimestamp(sc, i)).t}
ChildIds(sc) ==
    {convert_value(ChildrenOf(sc)[i].dataItemId) : i \in 1..Len(ChildrenOf(sc))}

\* C2: in a converted document, the entry retained for a data-item id in a
\* component and category carries the latest timestamp among all the items
\* of that id in that component and category, whatever their tag names.
C2_LatestAcrossTags ==
    ConvDocument =>
        \A sc \in InputContainers :
            \A id \in DOMAIN OutputOf(sc).m :
                \E i \in LatestChildren(sc, id) :
                    OutputOf(sc).m[id].timestamp = ChildTimestamp(sc, i)

\* C5: the 'state' of a retained Condition entry is the XML tag name of the
\* item it was taken from, and its 'category' is that item's type.
C5_StateIsTagName ==
    ConvDocument =>
        \A sc \in InputContainers :
            sc[2] = "Condition" =>
                \A id \in DOMAIN OutputOf(sc).m :
                    \E i \in ParseableChildren(sc, id) :
                        /\ OutputOf(sc).m[id].timestamp = ChildTimestamp(sc, i)
                        /\ OutputOf(sc).m[id].state = StrValue(ChildrenOf(sc)[i].tag)
                        /\ OutputOf(sc).m[id].category = convert_value(ChildrenOf(sc)[i].type)

\* C6: an item whose timestamp cannot be parsed or compared is dropped and
\* the rest of the document is converted: a well-formed document always
\* yields a converted document, with an entry for every data-item id that
\* has an item with a timestamp that parses.
C6_BadTimestampDropsItemOnly ==
    (ConvRan /\ xml_string.wellFormed) =>
        /\ ConvDocument
        /\ \A sc \in InputContainers :
               \A id \in ChildIds(sc) :
                   ParseableChildren(sc, id) # {} => id \in DOMAIN OutputOf(sc).m

ComponentNames == {"x", "y"}
ItemNames == {"Xabs", "Xload", "Yabs", "mode", "c1", "c2"}

\* Whether a document holds an entry for the data item name of category
\* cat in component c.
Mentions(doc, c, cat, name) ==
    /\ Has(doc, "device")
    /\ Has(doc["device"], "components")
    /\ DictHas(doc["device"]["components"], c)
    /\ Has(doc["device"]["components"].m[c], cat)
    /\ DictHas(doc["device"]["components"].m[c][cat], name)
EntryIn(doc, c, cat, name) == doc["device"]["components"].m[c][cat].m[name]
\* The readings a document holds for the item, a bare entry counting as a
\* list of one.
ReadingsIn(doc, c, cat, name) ==
    IF Mentions(doc, c, cat, name) THEN EntryIn(doc, c, cat, name).es ELSE <<>>

\* The readings of the first n ingested documents, earlier documents first.
RECURSIVE Concatenated(_, _, _, _)
Concatenated(c, cat, name, n) ==
    IF n = 0 THEN <<>>
    ELSE Concatenated(c, cat, name, n - 1) \o ReadingsIn(ingested[n], c, cat, name)

MentionedBySome(c, cat, name) ==
    \E n \in 1..Len(ingested) : Mentions(ingested[n], c, cat, name)

Xabs == ReadingsIn(merged_data, "x", "samples", "Xabs")

LastMention(c, cat, name) ==
    CHOOSE n \in 1..Len(ingested) :
        /\ Mentions(ingested[n], c, cat, name)
        /\ \A k \in (n + 1)..Len(ingested) : ~Mentions(ingested[k], c, cat, name)

\* C9: after merging any sequence of documents, the condition entry of
\* every (component, data-item name) is the entry of the last document of
\* the sequence that mentions it, whatever the timestamps.
C9_ConditionLastWriteWins ==
    \A c \in ComponentNames, name \in ItemNames :
        /\ Mentions(merged_data, c, "conditions", name)
              <=> MentionedBySome(c, "conditions", name)
        /\ Mentions(merged_data, c, "conditions", name) =>
              EntryIn(merged_data, c, "conditions", name)
                  = EntryIn(ingested[LastMention(c, "conditions", name)], c, "conditions", name)

\* Warning (later timestamp) merged before Normal (earlier timestamp)
\* leaves Normal.
C9_Witness ==
    /\ Len(ingested) = 2
    /\ Mentions(ingested[1], "x", "conditions", "c1")
    /\ EntryIn(ingested[1], "x", "conditions", "c1") = ConditionEntry(2, "Warning")
    /\ Mentions(ingested[2], "x", "conditions", "c1")
    /\ EntryIn(ingested[2], "x", "conditions", "c1") = ConditionEntry(1, "Normal")
    /\ EntryIn(merged_data, "x", "conditions", "c1") = ConditionEntry(1, "Normal")

Count(seq, r) == Cardinality({i \in 1..Len(seq) : seq[i] = r})
SameBag(seq1, seq2) ==
    /\ Len(seq1) = Len(seq2)
    /\ \A i \in 1..Len(seq1) : Count(seq1, seq1[i]) = Count(seq2, seq1[i])

\* The two ingested documents merged in the opposite order.
OppositeOrder ==
    merge_machine_data(merge_machine_data(EmptyMap, ingested[2]), ingested[1])

C11_MergedInChronologicalOrder ==
    \A i, j \in 1..Len(data_sources) :
        i < j => data_sources[i].timestamp <= data_sources[j].timestamp

(***************************************************************************)
(* Properties of the merge on documents in memory, checked under SpecFold. *)
(***************************************************************************)
\* C12: folding merge_machine_data twice over the same list of documents,
\* each time from no existing document, gives two identical merged
\* documents, the order of every list included.
C12_FoldTwiceIdentical ==
    Len(folded) = 2 => folded[1] = folded[2]

(***************************************************************************)
(* Properties of the XML loader of database.py, checked under SpecXmlLoad. *)
(***************************************************************************)
\* C13: with the uniqueness constraints in place, a call of
\* process_xml_file on the file that the call before it loaded leaves as
\* many sample, event and condition rows as there were after that call.
C13_ReloadKeepsRowCounts ==
    store.constraints =>
        \A i \in 1..(Len(load_log) - 1) :
            (load_log[i].file = load_log[i + 1].file /\ load_log[i].outcome = "loaded")
                => load_log[i + 1].counts = load_log[i].counts

(***************************************************************************)
(* Properties of the CSV fact loader, checked under SpecCsvLoad.           *)
(***************************************************************************)
\* The reading a row of the file stands for, the machine under its name in
\* the database.
SourceKey(row) ==
    <<machine_mapping(row.machine_name), row.component_id, row.name, row.timestamp,
      row.sequence>>
FileHasNoRepeatedReading ==
    \A i, j \in 1..Len(csv_file) : i # j => SourceKey(csv_file[i]) # SourceKey(csv_file[j])
NoDuplicateFacts(table) ==
    \A i, j \in 1..Len(table) : i # j => FactKey(table[i]) # FactKey(table[j])

\* C14: running the loader again over the same file creates no duplicate
\* fact rows: the store never holds two fact rows with the same component,
\* name, timestamp and sequence, for a file that holds no reading twice.
C14_RerunCreatesNoDuplicates ==
    FileHasNoRepeatedReading =>
        /\ NoDuplicateFacts(csv_store.tables.samples)
        /\ NoDuplicateFacts(csv_store.tables.events)

\* C18: the buffer never holds more than batch_size rows, and when a call of
\* the loader is over every row that the call converted is in the fact
\* table (none lost) and the call has added no more rows than it converted
\* (none written twice).
C18_ConvertedRowsWrittenOnce ==
    /\ Len(csv_load.buf) <= batch_size
    /\ (csv_load.pc = "done" /\ csv_trace.outcome # "none") =>
           LET table == csv_store.tables[csv_load.kind]
           IN  /\ \A k \in 1..Len(csv_trace.converted) :
                      \E n \in 1..Len(table) : table[n] = csv_trace.converted[k]
               /\ Len(table) <= Len(csv_trace.before) + Len(csv_trace.converted)

\* C19: in one call of the loader no natural key is looked up in the store
\* twice, and every lookup is issued by the loop that builds the lookup
\* tables, none by the loop that writes the facts.
C19_OneLookupPerKey ==
    /\ \A i, j \in 1..Len(csv_trace.queries) :
           i # j => csv_trace.queries[i] # csv_trace.queries[j]
    /\ \A i \in 1..Len(csv_trace.queries) : csv_trace.queries[i][1] = "lookups"
\* The second loop has written the facts of a file in which two rows carry
\* the same machine, component and data type.
C19_Witness ==
    /\ csv_load.pc = "done"
    /\ csv_trace.outcome = "loaded"
    /\ Len(csv_trace.converted) >= 2
    /\ \E i, j \in 1..Len(csv_file) :
           /\ i # j
           /\ csv_file[i].machine_name = csv_file[j].machine_name
           /\ csv_file[i].component_id = csv_file[j].component_id
           /\ csv_file[i].data_type = csv_file[j].data_type

(***************************************************************************)
(* Properties of the full load, checked under SpecFullLoad.                *)
(***************************************************************************)
\* C15: the machine dimension holds at most one row per machine name, after
\* any number of runs.
C15_OneRowPerNaturalKey ==
    \A m1, m2 \in mz_db.tables.machines :
        m1.fields.machine_name = m2.fields.machine_name => m1 = m2

FactSteps == {"load_conditions_data", "load_samples_data", "load_events_data"}
LastStep == mz_run.log[Len(mz_run.log)]
FactStepReturned ==
    /\ mz_run.log # <<>>
    /\ LastStep.step \in FactSteps
    /\ LastStep.ok
Resolves(tables, r) ==
    /\ \E mc \in tables.machine_components :
           /\ mc.id = r.fields.component_id
           /\ mc.fields.machine_id = r.fields.machine_id
           /\ mc.fields.data_type_id = r.fields.data_type_id
           /\ mc.fields.component_identifier = r.fields.source.component_id
    /\ \E m \in tables.machines :
           /\ m.id = r.fields.machine_id
           /\ m.fields.machine_name = r.fields.source.machine_name
    /\ \E dt \in tables.data_types :
           /\ dt.id = r.fields.data_type_id
           /\ dt.fields.name = r.fields.source.data_type
RowsWithKeyIn(lookup_cache) ==
    {k \in 1..Len(mz_files.facts) : CacheKey(mz_files.facts[k]) \in DOMAIN lookup_cache}

\* C16: every fact row of the store carries the ids of a component row, a
\* machine row and a data type row that exist and are those of the row's
\* machine name, data type and component identifier; a call of
\* load_time_series_data inserts one row for every row of the file whose key
\* is in the lookup cache, whatever rows it passes over before it.
C16_FactRowsResolveOrAreSkipped ==
    /\ \A t \in FactTables : \A r \in mz_conn.tables[t] : Resolves(mz_conn.tables, r)
    /\ \A t \in FactTables : \A r \in mz_db.tables[t] : Resolves(mz_db.tables, r)
    /\ FactStepReturned =>
           Cardinality(mz_db.tables[TimeSeriesTable(LastStep.step)])
               = Cardinality(RowsWithKeyIn(mz_trace.lookup_cache))
\* A call has passed over the first row of the file and inserted the second.
C16_Witness ==
    /\ FactStepReturned
    /\ Len(mz_files.facts) >= 2
    /\ CacheKey(mz_files.facts[1]) \notin DOMAIN mz_trace.lookup_cache
    /\ CacheKey(mz_files.facts[2]) \in DOMAIN mz_trace.lookup_cache
    /\ mz_db.tables[TimeSeriesTable(LastStep.step)] # {}

\* C17: the lookup cache that load_time_series_data builds after the
\* dimension steps has an entry for every machine, data type and component
\* of the fact file.
C17_LookupCacheComplete ==
    FactStepReturned =>
        \A k \in 1..Len(mz_files.facts) :
            CacheKey(mz_files.facts[k]) \in DOMAIN mz_trace.lookup_cache

DimensionSteps ==
    {"load_reference_data", "load_machines_data", "load_machine_configurations",
     "load_components_data"}
\* C20: the steps that a run has executed are the first steps of the order
\* of run_full_load, each but the last having returned, followed by
\* disconnect alone once a step has raised or create_views has returned;
\* the fact tables grow only in a fact step that follows the four dimension
\* steps; between runs the connection is closed.
C20_StepsInOrder ==
    /\ \A i \in 1..Len(mz_run.log) :
           /\ i < Len(mz_run.log) /\ mz_run.log[i].ok /\ mz_run.log[i].step # "create_views"
                  => mz_run.log[i + 1].step = Steps[i + 1]
           /\ i < Len(mz_run.log)
                  /\ (~mz_run.log[i].ok \/ mz_run.log[i].step = "create_views")
                  => mz_run.log[i + 1].step = "disconnect"
           /\ mz_run.log[i].step = "disconnect" => i = Len(mz_run.log)
           /\ i = 1 => mz_run.log[i].step = "connect"
           /\ i > 1 /\ mz_run.log[i].facts > mz_run.log[i - 1].facts
                  => /\ mz_run.log[i].step \in FactSteps
                     /\ \A d \in DimensionSteps :
                            \E j \in 1..(i - 1) : mz_run.log[j].step = d /\ mz_run.log[j].ok
    /\ (mz_run.step = "idle" /\ mz_run.runs > 0)
           => ~mz_conn.open /\ LastStep.step = "disconnect"
\* A run has ended after a step raised in the middle of loading the facts.
C20_Witness ==
    /\ mz_run.step = "idle"
    /\ \E i \in 1..Len(mz_run.log) :
           mz_run.log[i].step = "load_samples_data" /\ ~mz_run.log[i].ok
    /\ mz_db.tables.machine_conditions # {}

\* The call of load_time_series_data that the run executed last has raised.
FactStepRaised ==
    /\ mz_run.log # <<>>
    /\ LastStep.step \in FactSteps
    /\ ~LastStep.ok
\* The rows of the file that the call had passed when it committed last.
RowsCommittedBefore(fault_at) ==
    LET passed == IF (fault_at - 1) * rows_per_chunk < Len(mz_files.facts)
                  THEN (fault_at - 1) * rows_per_chunk ELSE Len(mz_files.facts)
    IN  passed - (passed % (rows_per_chunk * 5))

\* C21: when load_time_series_data meets an error of the store, nothing
\* uncommitted stays in the transaction, every table keeps the rows that
\* earlier steps committed, the table being loaded holds in addition the
\* rows of the chunks up to the last commit of the call and no others, and
\* run_full_load raises.
C21_FailedBatchRolledBackOnly ==
    /\ FactStepRaised =>
           /\ mz_conn.tables = mz_db.tables
           /\ \A t \in MazakTables : mz_trace.before[t] \subseteq mz_db.tables[t]
           /\ \A t \in MazakTables \ {TimeSeriesTable(LastStep.step)} :
                  mz_db.tables[t] = mz_trace.before[t]
           /\ Cardinality(mz_db.tables[TimeSeriesTable(LastStep.step)])
                  = Cardinality(mz_trace.before[TimeSeriesTable(LastStep.step)])
                    + Cardinality({k \in 1..RowsCommittedBefore(mz_trace.fault_at) :
                                      CacheKey(mz_files.facts[k])
                                          \in DOMAIN mz_trace.lookup_cache})
           /\ mz_run.step = "disconnect"
    /\ (mz_run.step = "idle" /\ \E i \in 1..Len(mz_run.log) : ~mz_run.log[i].ok)
           => mz_run.outcome = "raised"
\* A call has raised after it had committed rows, and the run has ended.
C21_Witness ==
    /\ mz_run.step = "idle"
    /\ mz_run.outcome = "raised"
    /\ \E i \in 1..Len(mz_run.log) :
           /\ mz_run.log[i].step = "load_samples_data"
           /\ ~mz_run.log[i].ok
           /\ mz_run.log[i].facts > mz_run.log[i - 1].facts

\* C25: clear_all_data never raises a foreign-key violation: a run that
\* follows a complete run gets past the clearing step.
C25_ClearRespectsForeignKeys ==
    \A i \in 1..Len(mz_run.log) :
        mz_run.log[i].step = "clear_all_data" => mz_run.log[i].error # "ForeignKeyViolation"

(***************************************************************************)
(* More properties of the loaders.                                         *)
(***************************************************************************)
\* The run of main of database.py that ended last has committed.
RunCommitted ==
    /\ ~session.open
    /\ session.done # {}
    /\ load_log[Len(load_log)].outcome # "raised"
\* The calls of process_xml_file of that run, as positions of load_log.
CallsOfRun == (Len(load_log) - Cardinality(session.done) + 1)..Len(load_log)
FileNamed(name) == CHOOSE xml_file \in XmlFiles : xml_file.name = name
\* The fact rows that process_xml_file writes for a file.
BuffersOf(xml_file) ==
    BuffersFrom(EmptyBuffers,
                [device_name |-> xml_file.deviceName, instance_id |-> xml_file.instanceId,
                 creation_time |-> database_parse_iso(xml_file.creationTime).time],
                xml_file.streams, 1)
Holds(table, rows) ==
    \A k \in 1..Len(rows) : \E n \in 1..Len(table) : table[n] = rows[k]

\* C22: when a run of main has committed, the store holds the rows of
\* every file that process_xml_file loaded in that run, whichever files of
\* the run were skipped before or after it.
C22_SkippedFileKeepsOthers ==
    RunCommitted =>
        \A i \in CallsOfRun :
            load_log[i].outcome = "loaded" =>
                /\ Holds(store.tables.sample, BuffersOf(FileNamed(load_log[i].file)).sample)
                /\ Holds(store.tables.event, BuffersOf(FileNamed(load_log[i].file)).event)
                /\ Holds(store.tables.condition,
                         BuffersOf(FileNamed(load_log[i].file)).condition)

\* C29: a call of load_samples_efficient or load_events_efficient that
\* returns normally has committed every row that it had written to a buffer:
\* an error of a batch write does not end as an error of a row.
C29_BatchErrorPropagates ==
    (csv_load.pc = "done" /\ csv_trace.outcome = "loaded") =>
        Holds(csv_store.tables[csv_load.kind], csv_trace.converted)


(***************************************************************************)
(* More properties of the merge on documents in memory, checked under      *)
(* SpecFold.                                                               *)
(***************************************************************************)
\* What json.dumps would print for the k-th loaded document.
DocumentText(h, k) == Serialised(h, documents[k])

\* C27: a call merge_machine_data(existing, incoming) leaves both argument
\* documents as they were before the call, and so does every later merge
\* applied to the document it returned: no FoldNext step changes what the
\* existing document, the incoming document or any document that was an
\* argument of an earlier merge holds.
C27_MergeLeavesArgumentsUnchanged ==
    [][FoldNext =>
          /\ Serialised(heap', folding.merged) = Serialised(heap, folding.merged)
          /\ \A k \in 1..Len(documents) : DocumentText(heap', k) = DocumentText(heap, k)]_vars


(***************************************************************************)
(* More properties of process_machine_data, checked under SpecProcess.     *)
(***************************************************************************)
\* The components that a parsed XML file holds: the component streams of
\* its device stream, or the entries of a Components element.
SourceComponents(xml_data) ==
    IF /\ Has(xml_data, "Streams")
       /\ Has(xml_data["Streams"], "DeviceStream")
       /\ Has(xml_data["Streams"]["DeviceStream"], "ComponentStream")
    THEN {xml_data["Streams"]["DeviceStream"]["ComponentStream"]["attributes"].componentId}
    ELSE IF /\ Has(xml_data, "MTConnectStreams")
            /\ Has(xml_data["MTConnectStreams"], "DeviceStream")
            /\ Has(xml_data["MTConnectStreams"]["DeviceStream"], "Device")
            /\ Has(xml_data["MTConnectStreams"]["DeviceStream"]["Device"], "Components")
    THEN DOMAIN xml_data["MTConnectStreams"]["DeviceStream"]["Device"]["Components"].m
    ELSE {}

ComponentsOf(doc) ==
    IF Has(doc, "device") /\ Has(doc["device"], "components")
    THEN DOMAIN doc["device"]["components"].m ELSE {}

HeaderHolds(doc) == Has(doc, "header") /\ DOMAIN doc["header"] # {}

\* The XML file that the next round of the loop over the XML files reads.
XmlFileRead == files_info.xml[progress.xml].content

\* C28 (components): every component of an XML file that parse_xml_file
\* parsed is a component of the structure that
\* convert_xml_to_json_structure returns for it and of the merged document
\* after the file was merged.
XmlComponentsKept ==
    \A c \in SourceComponents(XmlFileRead) :
        /\ c \in ComponentsOf(convert_xml_to_json_structure(XmlFileRead))
        /\ c \in ComponentsOf(merged_data')

\* C28 (header): merging an XML file leaves a merged document that held a
\* header with a header that holds something.
XmlMergeKeepsHeader == HeaderHolds(merged_data) => HeaderHolds(merged_data')

\* C28: no component of a successfully parsed XML source file is lost on
\* the way into the merged document, and merging an XML source removes no
\* information, such as the header, from the merged document.
C28_XmlSourceLosesNothing ==
    [][ProcessXmlFile => (XmlComponentsKept /\ XmlMergeKeepsHeader)]_vars


(***************************************************************************)
(* More properties of the merge, checked under SpecMerge.                  *)
(***************************************************************************)
\* The rows that flattening gives for one data item of one component.
RowsFor(rows, c, name) ==
    SelectSeq(rows, LAMBDA r : r.component_id = c /\ r.name = name)

FlattenedReadings(rows, c, name) ==
    [k \in 1..Len(RowsFor(rows, c, name)) |-> RowsFor(rows, c, name)[k].reading]

\* C26: after one or more merges that started from no existing document,
\* every samples and events entry of every component of the merged
\* document is a list, and process_samples and process_events give one row
\* for every reading that the merged document holds.
C26_MergedEntriesAreLists ==
    Len(ingested) >= 1 =>
        \A c \in ComponentNames, name \in ItemNames :
            /\ \A cat \in {"samples", "events"} :
                   Mentions(merged_data, c, cat, name) => EntryIn(merged_data, c, cat, name).list
            /\ FlattenedReadings(process_samples(merged_data), c, name)
                   = ReadingsIn(merged_data, c, "samples", name)
            /\ FlattenedReadings(process_events(merged_data), c, name)
                   = ReadingsIn(merged_data, c, "events", name)


\* C24: a database error (psycopg2.Error) during a run of main of
\* database.py, on connecting or in a statement, is fatal and surfaced:
\* main does not return normally as after a successful run, and the
\* database holds what was committed before the run.
C24_DatabaseErrorIsSurfaced ==
    (~session.open /\ session.error = "psycopg2.Error") => session.exit = "raised"


\* main of load_data_efficient.py has been left, by return or by raise.
MainLeft == csv_trace.outcome \in {"loaded", "raised"}

\* C23: whenever main has been left after SET session_replication_role =
\* replica, by return or by raise, session_replication_role has been set
\* back to its default.
C23_ReplicationRoleReset ==
    MainLeft => csv_conn.session_replication_role = "origin"


(***************************************************************************)
(* Properties of two invocations run at the same time, checked under       *)
(* SpecRace.                                                               *)
(***************************************************************************)
RaceEnded == \A p \in Invocations : race_proc[p].pc \in {"done", "raised"}
NamesOf(file) == {file[k] : k \in 1..Len(file)}
\* The machine names that the files of both invocations hold.
SharedNames == {name \in RaceNames : \A p \in Invocations : name \in NamesOf(race_files[p])}

\* C30: when two invocations have looked up and created machines for the
\* same names at the same time, the unique index being in place, the
\* machines table ends with exactly one row for every name they share, and
\* both invocations have completed their load with the id of that row.
C30_RaceEndsWithOneRowBothComplete ==
    RaceEnded =>
        \A name \in SharedNames :
            /\ Cardinality(Matching(race_db.machines, machine_mapping(name))) = 1
            /\ \A p \in Invocations :
                   /\ race_proc[p].pc = "done"
                   /\ race_proc[p].machine_lookup[name]
                          = FetchId(race_db.machines, machine_mapping(name))

=============================================================================
